---- MODULE Spec2Model ----
(***************************************************************************)
(* The analysis orchestration engine of CareerCraft-AI                     *)
(* (backend/services/job_analysis_service.py): the job table, the per-job  *)
(* step-progress table, the result table and the background task that      *)
(* runs the seven step executors of one job.                               *)
(*                                                                         *)
(* The service runs on one asyncio event loop.  A coroutine runs without   *)
(* interruption until it awaits something that really suspends; in this    *)
(* service only the calls to the generative capability (claude_service)    *)
(* suspend.  _update_step_status is declared async but awaits nothing, the *)
(* resume parser is a plain call, and step 7 makes no external call.  An   *)
(* action of the model is therefore one such uninterrupted stretch of      *)
(* code: a public method called from a request handler, or the stretch of  *)
(* _process_analysis between two suspension points.                        *)
(***************************************************************************)
EXTENDS Integers, Sequences, FiniteSets, TLC

\* ------------------------------------------------------------- bounds
\* number of job ids that start_analysis can hand out in one run of the model
NumJobs == 2

JobIds == 1..NumJobs

\* latest reading of the clock, in hours
MaxClock == 3

\* number of distinct words that job keywords and resume skills are drawn from
MaxWords == 3

\* largest number of work-experience entries of a parsed resume
MaxExperience == 3

\* number of distinct technology names that occur in resume texts
MaxTechs == 2

\* largest number of technology mentions in one resume text
MaxTextLen == 2

\* number of interpreter processes that run the resume parser
NumProcs == 2

\* number of parse_resume calls in one run of the model
MaxCalls == 2

\* largest max_age_hours that cleanup_old_jobs is called with
MaxAgeHours == 1

\* ------------------------------------------------------ program constants
\* start_analysis: len(job_description.strip()) < 50 is rejected
MinDescLen == 50

\* len(AnalysisStep): the seven members of the enum, in definition order
TotalSteps == 7

Steps == 1..TotalSteps

None == "None"

\* None where the other values are records (a result, a progress snapshot)
NoRecord == [none |-> TRUE]

\* None where the other values are step numbers
NoStep == 0

\* AnalysisStatus
PENDING == "pending"
PROCESSING == "processing"
COMPLETED == "completed"
FAILED == "failed"
CANCELLED == "cancelled"

AnalysisStatus == {PENDING, PROCESSING, COMPLETED, FAILED, CANCELLED}

\* mutant: the percentages rounded to the nearest integer
STEP_CONFIG_rounded == <<14, 29, 43, 57, 71, 86, 100>>

\* STEP_CONFIG[step]["progress_percentage"], indexed by step_number
STEP_CONFIG == <<14, 28, 42, 57, 71, 85, 100>>

\* ------------------------------------------------------------- inputs
\* lengths of job_description.strip() that start_analysis is called with
DescLens == {0, MinDescLen - 1, MinDescLen}

\* resume_text arguments: None or "" (falsy), whitespace only, real text
ResumeTexts == {"none", "blank", "text"}

\* the analyze-application endpoint: len(resume_content.strip()) < 100 is
\* answered with HTTP 400 before start_analysis is called
MinResumeLen == 100

\* resume_text arguments told apart by length as well: "short" is real text of
\* fewer than 100 characters
ResumeTextsByLength == ResumeTexts \cup {"short"}

\* len(resume_text) of the text each argument stands for: None or "", one
\* blank, 99 characters of real text, 100 characters of real text
ResumeLen(resume_text) ==
  CASE resume_text = "none" -> 0
    [] resume_text = "blank" -> 1
    [] resume_text = "short" -> MinResumeLen - 1
    [] resume_text = "text" -> MinResumeLen

\* What a call to the generative capability can produce for the executor that
\* awaits it.  "error": the call raises.  "json": response_text is a JSON object
\* with fields of the expected types.  "json_no_company": (step 1) a JSON object
\* without an identifiable company_name.  "json_odd": (steps 4, 5) a JSON object
\* whose missing_skills / improvements field is not a list or string.
\* "json_nondict": valid JSON that is not an object.  "text": not JSON.
Outcomes(step) ==
  CASE step = 1 -> {"json", "json_no_company", "text", "json_nondict", "error"}
    [] step = 2 -> {"json", "text", "json_nondict", "error"}
    [] step \in {4, 5} -> {"json", "json_odd", "text", "json_nondict", "error"}
    [] step = 6 -> {"text", "error"}
    [] OTHER -> {}

\* ------------------------------------------------------------- state
VARIABLES
  active_jobs,   \* self.active_jobs: job id -> job record
  job_progress,  \* self.job_progress: job id -> list of seven AnalysisProgress
  job_results,   \* self.job_results: job id -> AnalysisResult
  tasks,         \* the asyncio tasks created by start_analysis: job id -> frame
  ret,           \* what the last call of start_analysis, cancel_analysis or
                 \* cleanup_old_jobs returned or raised
  clock,         \* datetime.now(timezone.utc), in whole hours
  match,         \* a call of _calculate_job_match_score: arguments and result
  parser,        \* the interpreter processes running ResumeParser: each
                 \* process's string-hash seed, and the parse_resume calls made
  limiter,       \* a RateLimiter (config/security.py) and the time it reads
  claude,        \* the ClaudeService shared by the jobs, the coroutines
                 \* calling it, and the time it reads
  auth,          \* the SessionManager (services/auth_service.py), the tokens
                 \* issued, and the time it reads
  extraction,    \* a run of ResumeParser._extract_sections: the lines of the
                 \* text and the loop's variables
  api            \* the HTTP layer (api/analysis.py): the user each job's
                 \* request carries, and the last request and its response

\* the state of the components other than the job table and its tasks
components == <<match, parser, limiter, claude, auth, extraction>>

vars == <<active_jobs, job_progress, job_results, tasks, ret, clock, components, api>>

\* a dict with one more (or one replaced) entry
Put(d, k, v) == [x \in (DOMAIN d) \cup {k} |-> IF x = k THEN v ELSE d[x]]

\* dict.get(k) of a table of records, None when k is absent
Get(d, k) == IF k \in DOMAIN d THEN d[k] ELSE NoRecord

EmptyDict == [x \in {} |-> NoRecord]

\* mutant: the records are created already started
NewProgress_started ==
  [status |-> PROCESSING, started_at |-> TRUE, completed_at |-> FALSE,
   error_message |-> None]

\* AnalysisProgress(status=PENDING) as start_analysis creates it
NewProgress ==
  [status |-> PENDING, started_at |-> FALSE, completed_at |-> FALSE,
   error_message |-> None]

\* the job record start_analysis puts into active_jobs
NewJob(desc_len, resume_file_id, resume_text) ==
  [request |-> [job_description |-> desc_len,
                resume_file_id |-> resume_file_id,
                resume_text |-> resume_text],
   status |-> PENDING, current_step |-> NoStep, error |-> NoStep,
   updated_at |-> clock]

\* the frame of a _process_analysis coroutine that has not run yet
\* claude_calls counts, for each step, the calls of the generative capability
\* its executor has made
NewTask ==
  [pc |-> "created", step |-> NoStep, exc |-> NoStep,
   job_analysis |-> None, company_research |-> None, sliceable |-> TRUE,
   claude_calls |-> [i \in Steps |-> 0]]

\* ----------------------------------------------- one job seen as a unit
\* The record S bundles what the code reaches through analysis_id: the job
\* record, its progress list, its entry of job_results and the task frame.
JobState(j) ==
  [job |-> active_jobs[j], progress |-> job_progress[j],
   result |-> Get(job_results, j), task |-> tasks[j]]

\* index of the first progress record in status PROCESSING, 0 if there is none
FirstWithStatus(progress, status) ==
  IF \E i \in 1..Len(progress) : progress[i].status = status
    THEN CHOOSE i \in 1..Len(progress) :
           /\ progress[i].status = status
           /\ \A k \in 1..(i - 1) : progress[k].status # status
    ELSE 0

\* _update_step_status(analysis_id, step, status, error_message)
update_step_status(S, step, status, error_message) ==
  [S EXCEPT
     !.progress[step] =
        [status |-> status,
         started_at |-> IF status = PROCESSING THEN TRUE ELSE @.started_at,
         completed_at |-> IF status \in {COMPLETED, FAILED} THEN TRUE
                          ELSE @.completed_at,
         error_message |-> IF error_message # None THEN error_message
                           ELSE @.error_message],
     !.job.current_step = step,
     !.job.updated_at = clock]

\* an executor's "except Exception as e" clause: mark the step FAILED with
\* str(e) and raise JobAnalysisError (steps 1, 3, 4, 5, 6, 7)
executor_raise(S, step) ==
  [update_step_status(S, step, FAILED, "str(e)") EXCEPT !.task.exc = step]

\* an executor awaiting the generative capability
suspend(S, step) ==
  [S EXCEPT !.task.pc = "await", !.task.step = step,
            !.task.claude_calls[step] = @ + 1]

\* ------------------------------------------------------ step executors
\* the field of an executor's fallback payload that holds response_text
RawTextField(step) ==
  CASE step = 1 -> "raw_analysis"
    [] step = 2 -> "research_summary"
    [] step = 4 -> "analysis_summary"
    [] step = 5 -> "recommendations"

\* mutant: json.JSONDecodeError is not caught
parse_response_strict(step, out) ==
  CASE out \in {"error", "json_nondict", "text"} ->
         [raises |-> TRUE, kind |-> None, raw_text |-> None]
    [] OTHER ->
         [raises |-> FALSE, kind |-> out, raw_text |-> None]

\* What the executor of step 1, 2, 4 or 5 makes of the outcome of its call:
\* json.loads(response_text), the fallback payload built in the "except
\* json.JSONDecodeError" clause, and payload["_metadata"] = ..., which raises
\* TypeError when the parsed JSON is not an object.  kind is the shape of the
\* payload, raw_text the field of it that holds response_text.
parse_response(step, out) ==
  CASE out \in {"error", "json_nondict"} ->
         [raises |-> TRUE, kind |-> None, raw_text |-> None]
    [] out = "text" ->
         [raises |-> FALSE, kind |-> "fallback", raw_text |-> RawTextField(step)]
    [] OTHER ->
         [raises |-> FALSE, kind |-> out, raw_text |-> None]

\* Each executor is split where it awaits: X_begin runs to the await (or to the
\* return, when the executor awaits nothing), X_end runs from the await's
\* outcome to the return.

\* _execute_step_1_job_analysis
execute_step_1_begin(S) ==
  suspend(update_step_status(S, 1, PROCESSING, None), 1)

execute_step_1_end(S, out) ==
  LET job_analysis == parse_response(1, out) IN
  IF job_analysis.raises
    THEN executor_raise(S, 1)
    ELSE [update_step_status(S, 1, COMPLETED, None) EXCEPT
            \* job_analysis.get("company_name", "Unknown Company"): the
            \* fallback payload names "Company Not Identified"
            !.task.job_analysis =
               IF job_analysis.kind = "json_no_company" THEN "Unknown Company"
               ELSE "company"]

\* mutant: company research calls the capability whatever step 1 found
execute_step_2_begin_always(S) ==
  suspend(update_step_status(S, 2, PROCESSING, None), 2)

\* _execute_step_2_company_research
execute_step_2_begin(S) ==
  LET S1 == update_step_status(S, 2, PROCESSING, None) IN
  IF S.task.job_analysis # "Unknown Company"
    THEN suspend(S1, 2)
    ELSE [update_step_status(S1, 2, COMPLETED, None) EXCEPT
            !.task.company_research = "Not specified"]

\* mutant: step 2 propagates its exception like the other executors
execute_step_2_end_raise(S, out) ==
  IF out \in {"error", "json_nondict"}
    THEN executor_raise(S, 2)
    ELSE [update_step_status(S, 2, COMPLETED, None) EXCEPT
            !.task.company_research = IF out = "json" THEN "json" ELSE "raw"]

execute_step_2_end(S, out) ==
  LET company_research == parse_response(2, out) IN
  IF company_research.raises
    THEN \* caught locally: the step is FAILED, the workflow goes on
         [update_step_status(S, 2, FAILED, "str(e)") EXCEPT
            !.task.company_research = "Research failed"]
    ELSE [update_step_status(S, 2, COMPLETED, None) EXCEPT
            !.task.company_research =
               IF company_research.kind = "fallback" THEN "raw" ELSE "json"]

\* mutant: blank text is parsed into an empty structure
parse_resume_raises_empty_only(text) == text \in {"none"}

\* ResumeParser.parse_resume raises ValueError on empty or blank text
parse_resume_raises(text) == text \in {"none", "blank"}

\* _execute_step_3_resume_parsing
execute_step_3_begin(S) ==
  LET S1 == update_step_status(S, 3, PROCESSING, None)
      request == S.job.request
  IN  IF request.resume_file_id
        THEN update_step_status(S1, 3, COMPLETED, None)
        ELSE IF request.resume_text # "none"
          THEN IF parse_resume_raises(request.resume_text)
                 THEN executor_raise(S1, 3)
                 ELSE update_step_status(S1, 3, COMPLETED, None)
          ELSE executor_raise(S1, 3)

\* _execute_step_4_skills_analysis
execute_step_4_begin(S) ==
  suspend(update_step_status(S, 4, PROCESSING, None), 4)

execute_step_4_end(S, out) ==
  LET skills_analysis == parse_response(4, out) IN
  IF skills_analysis.raises
    THEN executor_raise(S, 4)
    ELSE [update_step_status(S, 4, COMPLETED, None) EXCEPT
            !.task.sliceable = (skills_analysis.kind # "json_odd")]

\* _execute_step_5_resume_enhancement
execute_step_5_begin(S) ==
  suspend(update_step_status(S, 5, PROCESSING, None), 5)

execute_step_5_end(S, out) ==
  LET resume_recommendations == parse_response(5, out) IN
  IF resume_recommendations.raises
    THEN executor_raise(S, 5)
    ELSE [update_step_status(S, 5, COMPLETED, None) EXCEPT
            !.task.sliceable = (@ /\ resume_recommendations.kind # "json_odd")]

\* _execute_step_6_cover_letter
execute_step_6_begin(S) ==
  suspend(update_step_status(S, 6, PROCESSING, None), 6)

\* mutant: the success path forgets to mark the step COMPLETED
execute_step_6_end_unmarked(S, out) ==
  IF out = "error" THEN executor_raise(S, 6) ELSE S

execute_step_6_end(S, out) ==
  IF out = "error"
    THEN executor_raise(S, 6)
    ELSE update_step_status(S, 6, COMPLETED, None)

\* _execute_step_7_final_review: slicing improvements[:3] and
\* missing_skills[:5] raises TypeError when a field is not sliceable
execute_step_7_begin(S) ==
  LET S1 == update_step_status(S, 7, PROCESSING, None) IN
  IF S.task.sliceable
    THEN update_step_status(S1, 7, COMPLETED, None)
    ELSE executor_raise(S1, 7)

step_begin(S, step) ==
  CASE step = 1 -> execute_step_1_begin(S)
    [] step = 2 -> execute_step_2_begin(S)
    [] step = 3 -> execute_step_3_begin(S)
    [] step = 4 -> execute_step_4_begin(S)
    [] step = 5 -> execute_step_5_begin(S)
    [] step = 6 -> execute_step_6_begin(S)
    [] step = 7 -> execute_step_7_begin(S)

step_end(S, step, out) ==
  CASE step = 1 -> execute_step_1_end(S, out)
    [] step = 2 -> execute_step_2_end(S, out)
    [] step = 4 -> execute_step_4_end(S, out)
    [] step = 5 -> execute_step_5_end(S, out)
    [] step = 6 -> execute_step_6_end(S, out)

\* ------------------------------------------------------ _process_analysis
\* _count_claude_calls(analysis_id): "return 5", whatever the job did
count_claude_calls == 5

\* AnalysisResult(...): the payloads of the seven steps
AnalysisResult(S) ==
  [company_research |-> S.task.company_research, steps_completed |-> TotalSteps,
   claude_api_calls |-> count_claude_calls]

\* mutant: the result is stored but the job's status is left as it is
process_analysis_store_no_status(S) ==
  [S EXCEPT !.result = AnalysisResult(S),
            !.job.updated_at = clock,
            !.task.pc = "done"]

\* "Store result" and "Update job status" at the end of the try block
process_analysis_store(S) ==
  [S EXCEPT !.result = AnalysisResult(S),
            !.job.status = COMPLETED,
            !.job.updated_at = clock,
            !.task.pc = "done"]

\* mutant: the handler does not record the error text on the job
process_analysis_except_no_error(S) ==
  LET i == FirstWithStatus(S.progress, PROCESSING)
      S1 == [S EXCEPT !.job.status = FAILED,
                      !.job.updated_at = clock,
                      !.task.pc = "done"]
  IN  IF i = 0 THEN S1
      ELSE [S1 EXCEPT !.progress[i].status = FAILED,
                      !.progress[i].error_message = "str(e)",
                      !.progress[i].completed_at = TRUE]

\* mutant: the handler marks the step but leaves the job status alone
process_analysis_except_keep(S) ==
  LET i == FirstWithStatus(S.progress, PROCESSING)
      S1 == [S EXCEPT !.job.error = S.task.exc, !.task.pc = "done"]
  IN  IF i = 0 THEN S1
      ELSE [S1 EXCEPT !.progress[i].status = FAILED,
                      !.progress[i].error_message = "str(e)",
                      !.progress[i].completed_at = TRUE]

\* the "except Exception as e" clause of _process_analysis
process_analysis_except(S) ==
  LET i == FirstWithStatus(S.progress, PROCESSING)
      S1 == [S EXCEPT !.job.status = FAILED,
                      !.job.error = S.task.exc,
                      !.job.updated_at = clock,
                      !.task.pc = "done"]
  IN  IF i = 0 THEN S1
      ELSE [S1 EXCEPT !.progress[i].status = FAILED,
                      !.progress[i].error_message = "str(e)",
                      !.progress[i].completed_at = TRUE]

\* what _process_analysis does after executor `step` returned or raised
RECURSIVE process_analysis_after(_, _)
process_analysis_after(S, step) ==
  IF S.task.exc # NoStep THEN process_analysis_except(S)
  ELSE IF step = TotalSteps THEN process_analysis_store(S)
  ELSE LET S1 == step_begin(S, step + 1) IN
       IF S1.task.pc = "await" THEN S1
       ELSE process_analysis_after(S1, step + 1)

\* mutant: the run starts at Skills Analysis
process_analysis_start_skip(S) ==
  LET S1 == [S EXCEPT !.job.status = PROCESSING, !.task.pc = "running"]
      S2 == step_begin(S1, 4)
  IN  IF S2.task.pc = "await" THEN S2 ELSE process_analysis_after(S2, 4)

\* _process_analysis from its first line to its first suspension
process_analysis_start(S) ==
  LET S1 == [S EXCEPT !.job.status = PROCESSING, !.job.updated_at = clock,
                      !.task.pc = "running"]
      S2 == step_begin(S1, 1)
  IN  IF S2.task.pc = "await" THEN S2 ELSE process_analysis_after(S2, 1)

\* _process_analysis from the outcome of the awaited call to the next
\* suspension or to its end
process_analysis_resume(S, out) ==
  LET S1 == step_end([S EXCEPT !.task.pc = "running"], S.task.step, out)
  IN  process_analysis_after(S1, S.task.step)

\* ------------------------------------------------------ public methods
\* mutant: the percentage is rounded to the nearest integer, not truncated
get_progress_rounded(analysis_id) ==
  IF analysis_id \notin DOMAIN active_jobs THEN NoRecord
  ELSE
    LET job == active_jobs[analysis_id]
        progress_list == Get(job_progress, analysis_id)
        completed_steps ==
          Cardinality({i \in 1..Len(progress_list) :
                         progress_list[i].status = COMPLETED})
        total_steps == Len(progress_list)
        overall_progress ==
          IF total_steps > 0
            THEN (2 * completed_steps * 100 + total_steps) \div (2 * total_steps)
            ELSE 0
        processing == FirstWithStatus(progress_list, PROCESSING)
        current_step ==
          IF processing # 0 THEN processing
          ELSE IF completed_steps < total_steps
            THEN FirstWithStatus(progress_list, PENDING)
            ELSE 0
    IN  [analysis_id |-> analysis_id,
         status |-> job.status,
         overall_progress |-> overall_progress,
         current_step |-> current_step,
         steps |-> progress_list,
         error |-> job.error]

\* mutant: the next pending step is reported even while a step is processing
get_progress_pending_first(analysis_id) ==
  IF analysis_id \notin DOMAIN active_jobs THEN NoRecord
  ELSE
    LET job == active_jobs[analysis_id]
        progress_list == Get(job_progress, analysis_id)
        completed_steps ==
          Cardinality({i \in 1..Len(progress_list) :
                         progress_list[i].status = COMPLETED})
        total_steps == Len(progress_list)
        overall_progress ==
          IF total_steps > 0 THEN (completed_steps * 100) \div total_steps ELSE 0
        processing == FirstWithStatus(progress_list, PROCESSING)
        pending == FirstWithStatus(progress_list, PENDING)
        current_step == IF pending # 0 THEN pending ELSE processing
    IN  [analysis_id |-> analysis_id,
         status |-> job.status,
         overall_progress |-> overall_progress,
         current_step |-> current_step,
         steps |-> progress_list,
         error |-> job.error]

\* mutant: a step in progress counts as done in overall_progress
get_progress_counts_processing(analysis_id) ==
  IF analysis_id \notin DOMAIN active_jobs THEN NoRecord
  ELSE
    LET job == active_jobs[analysis_id]
        progress_list == Get(job_progress, analysis_id)
        completed_steps ==
          Cardinality({i \in 1..Len(progress_list) :
                         progress_list[i].status \in {COMPLETED, PROCESSING}})
        total_steps == Len(progress_list)
        overall_progress ==
          IF total_steps > 0 THEN (completed_steps * 100) \div total_steps ELSE 0
        processing == FirstWithStatus(progress_list, PROCESSING)
        current_step ==
          IF processing # 0 THEN processing
          ELSE IF completed_steps < total_steps
            THEN FirstWithStatus(progress_list, PENDING)
            ELSE 0
    IN  [analysis_id |-> analysis_id,
         status |-> job.status,
         overall_progress |-> overall_progress,
         current_step |-> current_step,
         steps |-> progress_list,
         error |-> job.error]

\* get_progress(analysis_id)
get_progress(analysis_id) ==
  IF analysis_id \notin DOMAIN active_jobs THEN NoRecord
  ELSE
    LET job == active_jobs[analysis_id]
        progress_list == Get(job_progress, analysis_id)
        completed_steps ==
          Cardinality({i \in 1..Len(progress_list) :
                         progress_list[i].status = COMPLETED})
        total_steps == Len(progress_list)
        overall_progress ==
          IF total_steps > 0 THEN (completed_steps * 100) \div total_steps ELSE 0
        processing == FirstWithStatus(progress_list, PROCESSING)
        current_step ==
          IF processing # 0 THEN processing
          ELSE IF completed_steps < total_steps
            THEN FirstWithStatus(progress_list, PENDING)
            ELSE 0
    IN  [analysis_id |-> analysis_id,
         status |-> job.status,
         overall_progress |-> overall_progress,
         current_step |-> current_step,
         steps |-> progress_list,
         error |-> job.error]

\* mutant: an unknown id gets an empty result, not None
get_result_default(analysis_id) ==
  IF analysis_id \in DOMAIN job_results THEN job_results[analysis_id]
  ELSE [company_research |-> None, steps_completed |-> 0]

\* get_result(analysis_id)
get_result(analysis_id) == Get(job_results, analysis_id)

\* mutant: only FAILED jobs are refused
cancel_analysis_returns_completed(analysis_id) ==
  IF analysis_id \notin DOMAIN active_jobs THEN FALSE
  ELSE active_jobs[analysis_id].status \notin {FAILED}

\* mutant: only COMPLETED jobs are refused
cancel_analysis_returns_failed(analysis_id) ==
  IF analysis_id \notin DOMAIN active_jobs THEN FALSE
  ELSE active_jobs[analysis_id].status \notin {COMPLETED}

\* the value cancel_analysis returns
cancel_analysis_returns(analysis_id) ==
  IF analysis_id \notin DOMAIN active_jobs THEN FALSE
  ELSE active_jobs[analysis_id].status \notin {COMPLETED, FAILED}

\* ------------------------------------------------------------- actions
\* no other component has been called
ComponentsIdle ==
  /\ auth = NoRecord
  /\ extraction = NoRecord
  /\ match = NoRecord
  /\ parser = NoRecord
  /\ limiter = NoRecord
  /\ claude = NoRecord
  /\ api = NoRecord

Init ==
  /\ active_jobs = EmptyDict
  /\ job_progress = EmptyDict
  /\ job_results = EmptyDict
  /\ tasks = EmptyDict
  /\ ret = [op |-> "init", id |-> 0, val |-> None]
  /\ clock = 0
  /\ ComponentsIdle

\* mutant: the progress list is one object shared by all jobs
Store_shared(j, S) ==
  /\ active_jobs' = Put(active_jobs, j, S.job)
  /\ job_progress' = [x \in (DOMAIN job_progress) \cup {j} |-> S.progress]
  /\ job_results' = IF S.result = NoRecord THEN job_results
                    ELSE Put(job_results, j, S.result)
  /\ tasks' = Put(tasks, j, S.task)

\* write one job's bundle back into the tables
Store(j, S) ==
  /\ active_jobs' = Put(active_jobs, j, S.job)
  /\ job_progress' = Put(job_progress, j, S.progress)
  /\ job_results' = IF S.result = NoRecord THEN job_results
                    ELSE Put(job_results, j, S.result)
  /\ tasks' = Put(tasks, j, S.task)

\* mutant: start_analysis applies the endpoint's 100-character minimum itself
start_analysis_min_resume(analysis_id, desc_len, resume_file_id, resume_text) ==
  IF \/ desc_len < MinDescLen
     \/ (~resume_file_id /\ resume_text = "none")
     \/ (~resume_file_id /\ ResumeLen(resume_text) < MinResumeLen)
    THEN /\ ret' = [op |-> "start_analysis", id |-> 0, val |-> "JobAnalysisError"]
         /\ UNCHANGED <<active_jobs, job_progress, job_results, tasks, clock, components>>
    ELSE /\ active_jobs' = Put(active_jobs, analysis_id,
                                NewJob(desc_len, resume_file_id, resume_text))
         /\ job_progress' = Put(job_progress, analysis_id,
                                [i \in Steps |-> NewProgress])
         /\ tasks' = Put(tasks, analysis_id, NewTask)
         /\ ret' = [op |-> "start_analysis", id |-> analysis_id, val |-> "id"]
         /\ UNCHANGED <<job_results, clock, components>>

\* mutant: a request without a resume is let through
start_analysis_no_resume_check(analysis_id, desc_len, resume_file_id, resume_text) ==
  IF desc_len < MinDescLen
    THEN /\ ret' = [op |-> "start_analysis", id |-> 0, val |-> "JobAnalysisError"]
         /\ UNCHANGED <<active_jobs, job_progress, job_results, tasks, clock, components>>
    ELSE /\ active_jobs' = Put(active_jobs, analysis_id,
                                NewJob(desc_len, resume_file_id, resume_text))
         /\ job_progress' = Put(job_progress, analysis_id,
                                [i \in Steps |-> NewProgress])
         /\ tasks' = Put(tasks, analysis_id, NewTask)
         /\ ret' = [op |-> "start_analysis", id |-> analysis_id, val |-> "id"]
         /\ UNCHANGED <<job_results, clock, components>>

\* start_analysis(session_data, job_description, job_url, resume_file_id,
\* resume_text, preferences); secrets.token_urlsafe(16) gives an id not in use
start_analysis(analysis_id, desc_len, resume_file_id, resume_text) ==
  IF desc_len < MinDescLen \/ (~resume_file_id /\ resume_text = "none")
    THEN /\ ret' = [op |-> "start_analysis", id |-> 0, val |-> "JobAnalysisError"]
         /\ UNCHANGED <<active_jobs, job_progress, job_results, tasks, clock, components>>
    ELSE /\ active_jobs' = Put(active_jobs, analysis_id,
                                NewJob(desc_len, resume_file_id, resume_text))
         /\ job_progress' = Put(job_progress, analysis_id,
                                [i \in Steps |-> NewProgress])
         /\ tasks' = Put(tasks, analysis_id, NewTask)
         /\ ret' = [op |-> "start_analysis", id |-> analysis_id, val |-> "id"]
         /\ UNCHANGED <<job_results, clock, components>>

StartAnalysis ==
  \E analysis_id \in JobIds \ DOMAIN active_jobs, desc_len \in DescLens,
     resume_file_id \in BOOLEAN :
    \* a caller passes a file id or a text, or neither
    \E resume_text \in IF resume_file_id THEN {"none"} ELSE ResumeTexts :
      /\ start_analysis(analysis_id, desc_len, resume_file_id, resume_text)
      /\ UNCHANGED api

\* the event loop runs a task created by start_analysis for the first time
TaskStart ==
  \E j \in DOMAIN tasks :
    /\ tasks[j].pc = "created"
    /\ Store(j, process_analysis_start(JobState(j)))
    /\ UNCHANGED <<ret, clock, components, api>>

\* the call an executor awaits returns or raises, and the task runs on
TaskResume ==
  \E j \in DOMAIN tasks :
    /\ tasks[j].pc = "await"
    /\ \E out \in Outcomes(tasks[j].step) :
         Store(j, process_analysis_resume(JobState(j), out))
    /\ UNCHANGED <<ret, clock, components, api>>

\* mutant: every unfinished step is marked cancelled, not only the current one
cancel_analysis_all(analysis_id) ==
  /\ ret' = [op |-> "cancel_analysis", id |-> analysis_id,
             val |-> IF cancel_analysis_returns(analysis_id) THEN "True" ELSE "False"]
  /\ IF ~cancel_analysis_returns(analysis_id)
       THEN UNCHANGED <<active_jobs, job_progress>>
       ELSE /\ active_jobs' =
                 [active_jobs EXCEPT ![analysis_id].status = CANCELLED,
                                     ![analysis_id].updated_at = clock]
            /\ job_progress' =
                 [job_progress EXCEPT ![analysis_id] =
                    [i \in Steps |->
                       IF @[i].status \in {PENDING, PROCESSING}
                         THEN [@[i] EXCEPT !.status = CANCELLED,
                                           !.completed_at = TRUE]
                         ELSE @[i]]]
  /\ UNCHANGED <<job_results, tasks, clock, components>>

\* cancel_analysis(analysis_id)
cancel_analysis(analysis_id) ==
  /\ ret' = [op |-> "cancel_analysis", id |-> analysis_id,
             val |-> IF cancel_analysis_returns(analysis_id) THEN "True" ELSE "False"]
  /\ IF ~cancel_analysis_returns(analysis_id)
       THEN UNCHANGED <<active_jobs, job_progress>>
       ELSE LET progress_list == Get(job_progress, analysis_id)
                i == FirstWithStatus(progress_list, PROCESSING)
            IN  /\ active_jobs' =
                     [active_jobs EXCEPT ![analysis_id].status = CANCELLED,
                                         ![analysis_id].updated_at = clock]
                /\ job_progress' =
                     IF i = 0 THEN job_progress
                     ELSE [job_progress EXCEPT
                             ![analysis_id][i].status = CANCELLED,
                             ![analysis_id][i].completed_at = TRUE]
  /\ UNCHANGED <<job_results, tasks, clock, components>>

CancelAnalysis ==
  \E analysis_id \in JobIds : cancel_analysis(analysis_id) /\ UNCHANGED api

\* get_progress and get_result called by a poller at any moment: both only
\* read the tables, and what they return is the operator's value in that state
GetProgress == \E analysis_id \in JobIds : UNCHANGED vars

GetResult == \E analysis_id \in JobIds : UNCHANGED vars

\* Whether the name datetime.timedelta can be evaluated in this module: the
\* module imports "from datetime import datetime", so datetime is the class
\* datetime.datetime, which has no attribute timedelta
datetime_has_timedelta == FALSE

\* a dict without the keys in ks
Without(d, ks) == [x \in (DOMAIN d) \ ks |-> d[x]]

\* the ids cleanup_old_jobs collects in jobs_to_remove
jobs_to_remove(cutoff_time) ==
  {analysis_id \in DOMAIN active_jobs :
     /\ active_jobs[analysis_id].updated_at < cutoff_time
     /\ active_jobs[analysis_id].status \in {COMPLETED, FAILED, CANCELLED}}

\* mutant: the cutoff is computed, and jobs are selected by age alone
cleanup_old_jobs_any_status(max_age_hours) ==
  LET cutoff_time == clock - max_age_hours
      removed == {analysis_id \in DOMAIN active_jobs :
                    active_jobs[analysis_id].updated_at < cutoff_time}
  IN  /\ active_jobs' = Without(active_jobs, removed)
      /\ job_progress' = Without(job_progress, removed)
      /\ job_results' = Without(job_results, removed)
      /\ ret' = [op |-> "cleanup_old_jobs", id |-> 0,
                 val |-> ToString(Cardinality(removed))]
      /\ UNCHANGED <<tasks, clock, components>>

\* cleanup_old_jobs(max_age_hours): the first statement raises AttributeError
\* before any table is read; the rest of the body is what would run otherwise
cleanup_old_jobs(max_age_hours) ==
  IF ~datetime_has_timedelta
    THEN /\ ret' = [op |-> "cleanup_old_jobs", id |-> 0, val |-> "AttributeError"]
         /\ UNCHANGED <<active_jobs, job_progress, job_results, tasks, clock, components>>
    ELSE LET cutoff_time == clock - max_age_hours
             removed == jobs_to_remove(cutoff_time)
         IN  /\ active_jobs' = Without(active_jobs, removed)
             /\ job_progress' = Without(job_progress, removed)
             /\ job_results' = Without(job_results, removed)
             /\ ret' = [op |-> "cleanup_old_jobs", id |-> 0,
                        val |-> ToString(Cardinality(removed))]
             /\ UNCHANGED <<tasks, clock, components>>

CleanupOldJobs ==
  \E max_age_hours \in (0..MaxAgeHours) : cleanup_old_jobs(max_age_hours) /\ UNCHANGED api

Next ==
  \/ StartAnalysis
  \/ TaskStart
  \/ TaskResume
  \/ CancelAnalysis
  \/ GetProgress
  \/ GetResult
  \/ CleanupOldJobs

Spec == Init /\ [][Next]_vars

\* ------------------------------------- requests with resumes of any length
\* start_analysis called directly with a resume text of any length
StartAnalysisAnyLength ==
  \E analysis_id \in JobIds \ DOMAIN active_jobs, desc_len \in DescLens,
     resume_file_id \in BOOLEAN :
    \E resume_text \in IF resume_file_id THEN {"none"} ELSE ResumeTextsByLength :
      /\ start_analysis(analysis_id, desc_len, resume_file_id, resume_text)
      /\ UNCHANGED api

SpecStart ==
  /\ Init
  /\ [][StartAnalysisAnyLength \/ TaskStart \/ CancelAnalysis \/ GetProgress]_vars

\* ------------------------------------------- cleanup of a table of old jobs
\* A job as the service holds it at rest in each status: created and not yet
\* run, awaiting the call of step 1, failed by that call, cancelled while
\* awaiting it, and run to completion with every call answered in JSON.
Snapshot(status) ==
  LET S0 == [job |-> NewJob(MinDescLen, FALSE, "text"),
             progress |-> [i \in Steps |-> NewProgress],
             result |-> NoRecord, task |-> NewTask]
      S1 == process_analysis_start(S0)
      S7 == [S0 EXCEPT
               !.job.current_step = TotalSteps,
               !.progress = [i \in Steps |->
                               [status |-> COMPLETED, started_at |-> TRUE,
                                completed_at |-> TRUE, error_message |-> None]],
               !.task.step = 6,
               !.task.job_analysis = "company",
               !.task.company_research = "json",
               !.task.claude_calls = [i \in Steps |->
                                        IF i \in {1, 2, 4, 5, 6} THEN 1 ELSE 0]]
  IN  CASE status = PENDING -> S0
        [] status = PROCESSING -> S1
        [] status = FAILED -> process_analysis_resume(S1, "error")
        [] status = CANCELLED ->
             [S1 EXCEPT !.job.status = CANCELLED,
                        !.progress[1].status = CANCELLED,
                        !.progress[1].completed_at = TRUE]
        [] status = COMPLETED -> process_analysis_store(S7)

\* the tables hold any set of jobs, each in any status and last updated at any
\* hour up to now
InitCleanup ==
  /\ ComponentsIdle
  /\ clock \in 0..MaxClock
  /\ ret = [op |-> "init", id |-> 0, val |-> None]
  /\ \E D \in SUBSET JobIds :
       \E status \in [D -> AnalysisStatus], updated_at \in [D -> 0..MaxClock] :
         /\ \A j \in D : updated_at[j] <= clock
         /\ active_jobs = [j \in D |-> [Snapshot(status[j]).job EXCEPT
                                          !.updated_at = updated_at[j]]]
         /\ job_progress = [j \in D |-> Snapshot(status[j]).progress]
         /\ job_results = [j \in {k \in D : status[k] = COMPLETED} |->
                             Snapshot(COMPLETED).result]
         /\ tasks = [j \in D |-> Snapshot(status[j]).task]

\* an hour passes
Tick ==
  /\ clock < MaxClock
  /\ clock' = clock + 1
  /\ UNCHANGED <<active_jobs, job_progress, job_results, tasks, ret, components, api>>

SpecCleanup ==
  /\ InitCleanup
  /\ [][CleanupOldJobs \/ Tick]_vars

\* ------------------------------------------------ the job match score
\* The arguments of _calculate_job_match_score as far as it reads them: the
\* keywords of the job analysis and the skills of the parsed resume (both are
\* turned into sets), the lengths of work_experience and education, and
\* contact_info, which is None or a record whose email and phone are present
\* (truthy) or not.
MatchInputs ==
  [job_keywords : SUBSET (1..MaxWords),
   resume_skills : SUBSET (1..MaxWords),
   experience_count : 0..MaxExperience,
   education_count : 0..1,
   contact_info : {NoRecord} \cup [email : BOOLEAN, phone : BOOLEAN]]

\* A score is the fraction num / den; the weights 0.4, 0.3, 0.2, 0.1 and the
\* halves of the contact weight are multiples of 1/20, the overlap a multiple
\* of 1/len(job_keywords).
MatchDen(in) ==
  20 * (IF in.job_keywords = {} THEN 1 ELSE Cardinality(in.job_keywords))

\* "except Exception: return 0.5"
DefaultScore(in) == [num |-> MatchDen(in) \div 2, den |-> MatchDen(in), raised |-> TRUE]

Min(a, b) == IF a <= b THEN a ELSE b

\* mutant: the overlap is computed without the "if job_keywords" guard, so an
\* empty keyword list divides by zero and the default score is returned
calculate_job_match_score_unguarded(in) ==
  IF in.contact_info = NoRecord \/ in.job_keywords = {} THEN DefaultScore(in)
  ELSE
    LET k == MatchDen(in) \div 20
        skills == 8 * Cardinality(in.resume_skills \cap in.job_keywords)
        experience == IF in.experience_count >= 3 THEN 6 * k
                      ELSE IF in.experience_count >= 1 THEN 4 * k ELSE 0
        education == IF in.education_count >= 1 THEN 4 * k ELSE 0
        contact_fields == Cardinality({f \in {"email", "phone"} : in.contact_info[f]})
        score == skills + experience + education + contact_fields * k
    IN  [num |-> Min(score, MatchDen(in)), den |-> MatchDen(in), raised |-> FALSE]

\* mutant: two work-experience entries already earn the full experience weight
calculate_job_match_score_two_entries(in) ==
  IF in.contact_info = NoRecord THEN DefaultScore(in)
  ELSE
    LET k == MatchDen(in) \div 20
        skills == IF in.job_keywords # {}
                    THEN 8 * Cardinality(in.resume_skills \cap in.job_keywords)
                    ELSE 0
        experience == IF in.experience_count >= 2 THEN 6 * k
                      ELSE IF in.experience_count >= 1 THEN 4 * k ELSE 0
        education == IF in.education_count >= 1 THEN 4 * k ELSE 0
        contact_fields == Cardinality({f \in {"email", "phone"} : in.contact_info[f]})
        score == skills + experience + education + contact_fields * k
    IN  [num |-> Min(score, MatchDen(in)), den |-> MatchDen(in), raised |-> FALSE]

\* _calculate_job_match_score(job_analysis, parsed_resume, skills_analysis)
calculate_job_match_score(in) ==
  IF in.contact_info = NoRecord
    THEN \* None.get raises AttributeError
         DefaultScore(in)
  ELSE
    LET k == MatchDen(in) \div 20
        skills == IF in.job_keywords # {}
                    THEN 8 * Cardinality(in.resume_skills \cap in.job_keywords)
                    ELSE 0
        experience == IF in.experience_count >= 3 THEN 6 * k
                      ELSE IF in.experience_count >= 1 THEN 4 * k ELSE 0
        education == IF in.education_count >= 1 THEN 4 * k ELSE 0
        contact_fields == Cardinality({f \in {"email", "phone"} : in.contact_info[f]})
        score == skills + experience + education + contact_fields * k
    IN  [num |-> Min(score, MatchDen(in)), den |-> MatchDen(in), raised |-> FALSE]

InitMatch ==
  /\ auth = NoRecord
  /\ extraction = NoRecord
  /\ active_jobs = EmptyDict
  /\ job_progress = EmptyDict
  /\ job_results = EmptyDict
  /\ tasks = EmptyDict
  /\ ret = [op |-> "init", id |-> 0, val |-> None]
  /\ clock = 0
  /\ \E in \in MatchInputs : match = [in |-> in, score |-> NoRecord]
  /\ parser = NoRecord
  /\ limiter = NoRecord
  /\ claude = NoRecord
  /\ api = NoRecord

CalculateJobMatchScore ==
  /\ match.score = NoRecord
  /\ match' = [match EXCEPT !.score = calculate_job_match_score(match.in)]
  /\ UNCHANGED <<active_jobs, job_progress, job_results, tasks, ret, clock, parser, limiter, claude, auth, extraction, api>>

SpecMatch ==
  /\ InitMatch
  /\ [][CalculateJobMatchScore]_vars

\* ------------------------------------------------------ the resume parser
\* The string hashes of an interpreter process.  CPython salts str hashes with
\* a seed drawn at interpreter start (PYTHONHASHSEED unset), and a set of
\* strings is iterated in the order of the hashes: a seed is modelled by the
\* rank it gives each name.
HashSeeds == {h \in [(1..MaxTechs) -> 1..MaxTechs] : \A x, y \in (1..MaxTechs) : h[x] = h[y] => x = y}

Range(seq) == {seq[i] : i \in 1..Len(seq)}

\* list(set(xs)) in a process whose hash seed is h
RECURSIVE list_set(_, _)
list_set(S, h) ==
  IF S = {} THEN <<>>
  ELSE LET x == CHOOSE y \in S : \A z \in S : h[y] <= h[z]
       IN  <<x>> \o list_set(S \ {x}, h)

\* sorted(list(xs))
RECURSIVE sorted(_)
sorted(S) ==
  IF S = {} THEN <<>>
  ELSE LET x == CHOOSE y \in S : \A z \in S : y <= z
       IN  <<x>> \o sorted(S \ {x})

\* parse_resume(text) in a process whose hash seed is h, for a text with one
\* work-experience entry: skills come from _extract_skills, which returns
\* sorted(list(skills)); the entry's technologies come from
\* _parse_experience_entry, which returns list(set(technologies))
parse_resume(text, h) ==
  [skills |-> sorted(Range(text)),
   work_experience |-> <<[technologies |-> list_set(Range(text), h)]>>]

\* the interpreter processes have started, each with its own hash seed
InitParser ==
  /\ auth = NoRecord
  /\ extraction = NoRecord
  /\ active_jobs = EmptyDict
  /\ job_progress = EmptyDict
  /\ job_results = EmptyDict
  /\ tasks = EmptyDict
  /\ ret = [op |-> "init", id |-> 0, val |-> None]
  /\ clock = 0
  /\ match = NoRecord
  /\ limiter = NoRecord
  /\ claude = NoRecord
  /\ api = NoRecord
  /\ \E seed \in [(1..NumProcs) -> HashSeeds] : parser = [seed |-> seed, calls |-> <<>>]

\* a call of parse_resume in process p
ParseResume ==
  \E p \in (1..NumProcs), text \in (UNION {[1..n -> (1..MaxTechs)] : n \in 0..MaxTextLen}) :
    /\ Len(parser.calls) < MaxCalls
    /\ parser' = [parser EXCEPT
                    !.calls = Append(@, [proc |-> p, text |-> text,
                                         result |-> parse_resume(text, parser.seed[p])])]
    /\ UNCHANGED <<active_jobs, job_progress, job_results, tasks, ret, clock, match, limiter, claude, auth, extraction, api>>

SpecParser ==
  /\ InitParser
  /\ [][ParseResume]_vars

\* ------------------------------------------------------ the HTTP endpoints
NumUsers == 2

\* user_id="hmac_user" of the temporary session analyze_application creates
hmac_user == 0

HTTP_200_OK == 200
HTTP_400_BAD_REQUEST == 400
HTTP_403_FORBIDDEN == 403
HTTP_404_NOT_FOUND == 404
HTTP_500_INTERNAL_SERVER_ERROR == 500

\* the parameters of JobAnalysisService.start_analysis, self aside
start_analysis_parameters ==
  {"session_data", "job_description", "job_url", "resume_file_id",
   "resume_text", "preferences"}

\* the keyword arguments analyze_application calls start_analysis with
analyze_application_keywords ==
  {"session_data", "job_description", "job_url", "company_name",
   "resume_file_id", "resume_text", "preferences"}

\* len(resume_content.strip())
StrippedLen(resume_content) ==
  IF resume_content = "blank" THEN 0 ELSE ResumeLen(resume_content)

\* a request as it reaches an endpoint function: the session is the caller's,
\* which the HMAC-only endpoints have no parameter for; the form holds the
\* lengths of the texts posted to analyze-application
Request(endpoint, session, analysis_id) ==
  [endpoint |-> endpoint, session |-> session, analysis_id |-> analysis_id,
   form |-> NoRecord]

\* the endpoint returns body, or raises HTTPException(status_code)
respond(request, status_code, body) ==
  api' = [api EXCEPT !.request = request,
                     !.response = [status_code |-> status_code, body |-> body]]

\* POST /analyze-application.  resume_file: an upload is present, and then
\* resume_content is the decoded file; otherwise it is resume_text.
analyze_application(session, analysis_id, desc_len, resume_file, resume_content) ==
  LET request == [Request("analyze_application", session, 0) EXCEPT
                    !.form = [desc_len |-> desc_len,
                              resume_len |-> StrippedLen(resume_content)]]
      refused == desc_len < MinDescLen
                   \/ (~resume_file /\ resume_content = "none")
                   \/ StrippedLen(resume_content) < MinResumeLen
  IN  IF refused
        THEN /\ respond(request, HTTP_400_BAD_REQUEST, NoRecord)
             /\ UNCHANGED <<active_jobs, job_progress, job_results, tasks, ret,
                            clock, components>>
      ELSE IF ~(analyze_application_keywords \subseteq start_analysis_parameters)
        THEN \* the call raises TypeError (unexpected keyword argument) before
             \* the body of start_analysis runs; except Exception answers 500
             /\ respond(request, HTTP_500_INTERNAL_SERVER_ERROR, NoRecord)
             /\ UNCHANGED <<active_jobs, job_progress, job_results, tasks, ret,
                            clock, components>>
      ELSE /\ start_analysis(analysis_id, desc_len, resume_file, resume_content)
           /\ api' = [user_id |-> Put(api.user_id, analysis_id, hmac_user),
                      request |-> request,
                      response |->
                        IF ret'.val = "id"
                          THEN [status_code |-> HTTP_200_OK,
                                body |-> [session_id |-> analysis_id,
                                          status |-> PROCESSING,
                                          progress |-> get_progress(analysis_id)']]
                          ELSE [status_code |-> HTTP_400_BAD_REQUEST,
                                body |-> NoRecord]]

AnalyzeApplication ==
  \E session \in (1..NumUsers), analysis_id \in JobIds \ DOMAIN active_jobs,
     desc_len \in DescLens, resume_file \in BOOLEAN,
     resume_content \in ResumeTextsByLength :
    analyze_application(session, analysis_id, desc_len, resume_file, resume_content)

\* GET /analysis/{analysis_id}/progress
get_analysis_progress(session, analysis_id) ==
  LET request == Request("get_analysis_progress", session, analysis_id)
      progress == get_progress(analysis_id)
  IN  /\ IF progress = NoRecord
           THEN respond(request, HTTP_404_NOT_FOUND, NoRecord)
           ELSE respond(request, HTTP_200_OK, progress)
      /\ UNCHANGED <<active_jobs, job_progress, job_results, tasks, ret,
                     clock, components>>

GetAnalysisProgress ==
  \E session \in (1..NumUsers), analysis_id \in JobIds :
    get_analysis_progress(session, analysis_id)

\* GET /analysis/{analysis_id}/results
get_analysis_results(session, analysis_id) ==
  LET request == Request("get_analysis_results", session, analysis_id)
      progress == get_progress(analysis_id)
      result == get_result(analysis_id)
  IN  /\ IF progress = NoRecord
           THEN respond(request, HTTP_404_NOT_FOUND, NoRecord)
         ELSE IF progress.status # COMPLETED
           THEN respond(request, HTTP_400_BAD_REQUEST, NoRecord)
         ELSE IF result = NoRecord
           THEN respond(request, HTTP_404_NOT_FOUND, NoRecord)
         ELSE respond(request, HTTP_200_OK,
                      [analysis_id |-> analysis_id, result |-> result])
      /\ UNCHANGED <<active_jobs, job_progress, job_results, tasks, ret,
                     clock, components>>

GetAnalysisResults ==
  \E session \in (1..NumUsers), analysis_id \in JobIds :
    get_analysis_results(session, analysis_id)

\* POST /analysis/{analysis_id}/cancel
cancel_analysis_endpoint(session, analysis_id) ==
  LET request == Request("cancel_analysis", session, analysis_id)
  IN  /\ cancel_analysis(analysis_id)
      /\ IF ret'.val = "True"
           THEN respond(request, HTTP_200_OK, [status |-> CANCELLED])
           ELSE respond(request, HTTP_400_BAD_REQUEST, NoRecord)

CancelAnalysisEndpoint ==
  \E session \in (1..NumUsers), analysis_id \in JobIds :
    cancel_analysis_endpoint(session, analysis_id)

\* GET /analysis/history with the default limit and offset, for which the page
\* returned is the whole list
get_analysis_history(session) ==
  LET request == Request("get_analysis_history", session, 0)
      all_jobs == {analysis_id \in DOMAIN active_jobs :
                     get_progress(analysis_id) # NoRecord}
  IN  /\ respond(request, HTTP_200_OK,
                 [analyses |-> all_jobs, total |-> Cardinality(all_jobs)])
      /\ UNCHANGED <<active_jobs, job_progress, job_results, tasks, ret,
                     clock, components>>

GetAnalysisHistory == \E session \in (1..NumUsers) : get_analysis_history(session)

\* The service holds jobs that callers of start_analysis have started for the
\* sessions of any users (AnalysisRequest.user_id = session_data.user_id), each
\* at rest in any status, and no request has been answered yet.
InitApi ==
  /\ auth = NoRecord
  /\ extraction = NoRecord
  /\ match = NoRecord
  /\ parser = NoRecord
  /\ limiter = NoRecord
  /\ claude = NoRecord
  /\ clock = 0
  /\ ret = [op |-> "init", id |-> 0, val |-> None]
  /\ \E D \in SUBSET JobIds :
       \E status \in [D -> AnalysisStatus], user_id \in [D -> (1..NumUsers)] :
         /\ active_jobs = [j \in D |-> Snapshot(status[j]).job]
         /\ job_progress = [j \in D |-> Snapshot(status[j]).progress]
         /\ job_results = [j \in {k \in D : status[k] = COMPLETED} |->
                             Snapshot(COMPLETED).result]
         /\ tasks = [j \in D |-> Snapshot(status[j]).task]
         /\ api = [user_id |-> user_id, request |-> NoRecord,
                   response |-> NoRecord]

SpecApi ==
  /\ InitApi
  /\ [][AnalyzeApplication \/ GetAnalysisProgress \/ GetAnalysisResults \/ CancelAnalysisEndpoint \/ GetAnalysisHistory]_vars

\* ---------------------------------------------------------- RateLimiter
NumIdentifiers == 2
MaxRequests == 2
WindowSeconds == 2
MaxNow == 4

\* [x for x in xs if x > bound]
NewerThan(xs, bound) == SelectSeq(xs, LAMBDA req_time : req_time > bound)

\* self._requests[identifier], created empty for an identifier not seen yet
requests_of(identifier) ==
  IF identifier \in DOMAIN limiter.requests
    THEN limiter.requests[identifier]
    ELSE <<>>

\* mutant: a request is admitted while the window holds max_requests or fewer
is_allowed_inclusive(identifier) ==
  LET now == limiter.now
      window_start == now - limiter.window_seconds
      kept == NewerThan(requests_of(identifier), window_start)
      current_requests == Len(kept)
  IN  IF current_requests <= limiter.max_requests
        THEN limiter' =
               [limiter EXCEPT
                  !.requests = Put(@, identifier, Append(kept, now)),
                  !.admitted[identifier] = Append(@, now),
                  !.last = [identifier |-> identifier, now |-> now,
                            allowed |-> TRUE,
                            current_requests |-> current_requests + 1]]
        ELSE limiter' =
               [limiter EXCEPT
                  !.requests = Put(@, identifier, kept),
                  !.last = [identifier |-> identifier, now |-> now,
                            allowed |-> FALSE,
                            current_requests |-> current_requests]]

\* RateLimiter.is_allowed(identifier).  requests is self._requests; admitted
\* keeps every admitted request's time, which the code forgets once it leaves
\* the window.
is_allowed(identifier) ==
  LET now == limiter.now
      window_start == now - limiter.window_seconds
      kept == NewerThan(requests_of(identifier), window_start)
      current_requests == Len(kept)
  IN  IF current_requests < limiter.max_requests
        THEN limiter' =
               [limiter EXCEPT
                  !.requests = Put(@, identifier, Append(kept, now)),
                  !.admitted[identifier] = Append(@, now),
                  !.last = [identifier |-> identifier, now |-> now,
                            allowed |-> TRUE,
                            current_requests |-> current_requests + 1]]
        ELSE limiter' =
               [limiter EXCEPT
                  !.requests = Put(@, identifier, kept),
                  !.last = [identifier |-> identifier, now |-> now,
                            allowed |-> FALSE,
                            current_requests |-> current_requests]]

IsAllowed ==
  \E identifier \in (1..NumIdentifiers) :
    /\ is_allowed(identifier)
    /\ UNCHANGED <<active_jobs, job_progress, job_results, tasks, ret, clock,
                   match, parser, claude, auth, extraction, api>>

\* RateLimiter.cleanup_old_entries()
cleanup_old_entries ==
  LET cutoff == limiter.now - limiter.window_seconds * 2
      kept == [identifier \in DOMAIN limiter.requests |->
                 NewerThan(limiter.requests[identifier], cutoff)]
  IN  limiter' =
        [limiter EXCEPT
           !.requests = [identifier \in {i \in DOMAIN kept : kept[i] # <<>>} |->
                           kept[identifier]]]

CleanupOldEntries ==
  /\ cleanup_old_entries
  /\ UNCHANGED <<active_jobs, job_progress, job_results, tasks, ret, clock,
                 match, parser, claude, auth, extraction, api>>

\* datetime.now(timezone.utc) moves on by a second
LimiterTick ==
  /\ limiter.now < MaxNow
  /\ limiter' = [limiter EXCEPT !.now = @ + 1]
  /\ UNCHANGED <<active_jobs, job_progress, job_results, tasks, ret, clock,
                 match, parser, claude, auth, extraction, api>>

\* RateLimiter(max_requests, window_seconds) just constructed
InitLimiter ==
  /\ auth = NoRecord
  /\ extraction = NoRecord
  /\ active_jobs = EmptyDict
  /\ job_progress = EmptyDict
  /\ job_results = EmptyDict
  /\ tasks = EmptyDict
  /\ ret = [op |-> "init", id |-> 0, val |-> None]
  /\ clock = 0
  /\ match = NoRecord
  /\ parser = NoRecord
  /\ claude = NoRecord
  /\ api = NoRecord
  /\ limiter = [max_requests |-> MaxRequests,
                window_seconds |-> WindowSeconds,
                requests |-> [identifier \in {} |-> <<>>],
                now |-> 0,
                admitted |-> [identifier \in (1..NumIdentifiers) |-> <<>>],
                last |-> NoRecord]

SpecLimiter ==
  /\ InitLimiter
  /\ [][IsAllowed \/ CleanupOldEntries \/ LimiterTick]_vars

\* ------------------------------------- ClaudeService and the event loop
NumCallers == 2
MaxApiCalls == 4
MaxSeconds == 90
TickSeconds == 30

REQUESTS_PER_MINUTE == 50
TOKENS_PER_MINUTE == 40000

\* the length in seconds of the window _check_rate_limits looks back over
RateWindow == 60

\* sum(tokens for _, tokens in usage)
RECURSIVE SumTokens(_)
SumTokens(usage) ==
  IF usage = <<>> THEN 0 ELSE usage[1][2] + SumTokens(Tail(usage))

\* No coroutine is inside time.sleep.  The service is used from coroutines of
\* one event loop, which runs on one thread: while a coroutine's synchronous
\* time.sleep has that thread, the loop runs no other coroutine and no handler.
event_loop_free ==
  \A p \in (1..NumCallers) : claude.frame[p].pc \notin {"sleep_requests", "sleep_tokens"}

\* _make_api_call from "start_time = time.time()" to the await of
\* async_client.messages.create: the request goes out
send_request(c, p) ==
  [c EXCEPT !.issued = Append(@, c.now), !.frame[p].pc = "await"]

\* _check_rate_limits from "Check token rate limit" on, then the request
check_token_limit(c, p) ==
  LET current_time == c.frame[p].current_time
      total_tokens == SumTokens(c.token_usage)
      oldest_time == IF c.token_usage # <<>> THEN c.token_usage[1][1]
                     ELSE current_time
      sleep_time == RateWindow - (current_time - oldest_time)
  IN  IF total_tokens >= TOKENS_PER_MINUTE /\ sleep_time > 0
        THEN [c EXCEPT !.frame[p].pc = "sleep_tokens",
                       !.frame[p].wake = c.now + sleep_time]
        ELSE send_request(c, p)

\* _make_api_call up to its first suspension: _check_rate_limits cleans the two
\* lists and compares their sizes with the budgets, and either enters
\* time.sleep or goes on to send the request
make_api_call(p) ==
  LET current_time == claude.now
      cutoff_time == current_time - RateWindow
      request_times == NewerThan(claude.request_times, cutoff_time)
      token_usage == SelectSeq(claude.token_usage, LAMBDA e : e[1] > cutoff_time)
      c == [claude EXCEPT !.request_times = request_times,
                          !.token_usage = token_usage,
                          !.calls = @ + 1,
                          !.frame[p].current_time = current_time]
      current_requests == Len(request_times)
  IN  IF current_requests >= REQUESTS_PER_MINUTE
           /\ RateWindow - (current_time - request_times[1]) > 0
        THEN claude' = [c EXCEPT
                          !.frame[p].pc = "sleep_requests",
                          !.frame[p].wake =
                            current_time
                              + (RateWindow - (current_time - request_times[1]))]
        ELSE claude' = check_token_limit(c, p)

MakeApiCall ==
  \E p \in (1..NumCallers) :
    /\ event_loop_free
    /\ claude.frame[p].pc = "idle"
    /\ claude.calls < MaxApiCalls
    /\ make_api_call(p)
    /\ UNCHANGED <<active_jobs, job_progress, job_results, tasks, ret, clock,
                   match, parser, limiter, auth, extraction, api>>

\* time.sleep(sleep_time) returns, sleep_time later, and _check_rate_limits
\* runs on: after the request check the token check, after that the request
SleepReturns ==
  \E p \in (1..NumCallers) :
    /\ claude.frame[p].pc \in {"sleep_requests", "sleep_tokens"}
    /\ LET c == [claude EXCEPT !.now = claude.frame[p].wake]
       IN  claude' = IF claude.frame[p].pc = "sleep_requests"
                       THEN check_token_limit(c, p)
                       ELSE send_request(c, p)
    /\ UNCHANGED <<active_jobs, job_progress, job_results, tasks, ret, clock,
                   match, parser, limiter, auth, extraction, api>>

\* the awaited response arrives: _record_usage(tokens_used)
ApiReturns ==
  \E p \in (1..NumCallers), tokens_used \in {100, TOKENS_PER_MINUTE} :
    /\ event_loop_free
    /\ claude.frame[p].pc = "await"
    /\ claude' = [claude EXCEPT
                    !.request_times = Append(@, claude.now),
                    !.token_usage = Append(@, <<claude.now, tokens_used>>),
                    !.frame[p].pc = "idle"]
    /\ UNCHANGED <<active_jobs, job_progress, job_results, tasks, ret, clock,
                   match, parser, limiter, auth, extraction, api>>

\* the awaited call raises: ClaudeAPIError is raised on, nothing is recorded
ApiRaises ==
  \E p \in (1..NumCallers) :
    /\ event_loop_free
    /\ claude.frame[p].pc = "await"
    /\ claude' = [claude EXCEPT !.frame[p].pc = "idle"]
    /\ UNCHANGED <<active_jobs, job_progress, job_results, tasks, ret, clock,
                   match, parser, limiter, auth, extraction, api>>

\* time.time() moves on while the loop is idle or awaiting
ClaudeTick ==
  /\ event_loop_free
  /\ claude.now + TickSeconds <= MaxSeconds
  /\ claude' = [claude EXCEPT !.now = @ + TickSeconds]
  /\ UNCHANGED <<active_jobs, job_progress, job_results, tasks, ret, clock,
                 match, parser, limiter, auth, extraction, api>>

\* the event loop runs a handler that calls get_progress(analysis_id)
ServeProgress ==
  /\ event_loop_free
  /\ \E analysis_id \in JobIds : UNCHANGED vars

\* the event loop runs a handler that calls cancel_analysis(analysis_id)
ServeCancel ==
  /\ event_loop_free
  /\ \E analysis_id \in JobIds : cancel_analysis(analysis_id) /\ UNCHANGED api

\* The service has answered some calls within the last second, one after the
\* other, and no call is under way.
InitClaude ==
  /\ auth = NoRecord
  /\ extraction = NoRecord
  /\ active_jobs = EmptyDict
  /\ job_progress = EmptyDict
  /\ job_results = EmptyDict
  /\ tasks = EmptyDict
  /\ ret = [op |-> "init", id |-> 0, val |-> None]
  /\ clock = 0
  /\ match = NoRecord
  /\ parser = NoRecord
  /\ limiter = NoRecord
  /\ api = NoRecord
  /\ \E n \in {0, REQUESTS_PER_MINUTE - 1, REQUESTS_PER_MINUTE} :
       claude = [request_times |-> [k \in 1..n |-> 0],
                 token_usage |-> [k \in 1..n |-> <<0, 100>>],
                 now |-> 0,
                 calls |-> 0,
                 issued |-> [k \in 1..n |-> 0],
                 frame |-> [p \in (1..NumCallers) |->
                              [pc |-> "idle", current_time |-> 0, wake |-> 0]]]

SpecClaude ==
  /\ InitClaude
  /\ [][MakeApiCall \/ SleepReturns \/ ApiReturns \/ ApiRaises \/ ClaudeTick \/ ServeProgress \/ ServeCancel]_vars

\* ------------------------------------------------- jobs under a fair loop
\* the task of job j takes its next stretch: its first run, or the run after
\* the call it awaits has returned or raised
TaskStep(j) ==
  /\ j \in DOMAIN tasks
  /\ \/ /\ tasks[j].pc = "created"
        /\ Store(j, process_analysis_start(JobState(j)))
     \/ /\ tasks[j].pc = "await"
        /\ \E out \in Outcomes(tasks[j].step) :
             Store(j, process_analysis_resume(JobState(j), out))
  /\ UNCHANGED <<ret, clock, components, api>>

\* The event loop runs every task that asyncio.create_task scheduled, and every
\* awaited call of the generative capability returns or raises in the end.
\* (The parser is called inside a stretch and returns or raises within it.)
Fairness == \A j \in JobIds : WF_vars(TaskStep(j))

\* the number of jobs started while the loop's fairness is examined
NumFairJobs == 1

\* start_analysis called with a request it accepts
StartAnalysisAccepted ==
  \E analysis_id \in (1..NumFairJobs) \ DOMAIN active_jobs,
     resume_file_id \in BOOLEAN :
    \E resume_text \in IF resume_file_id THEN {"none"} ELSE ResumeTexts \ {"none"} :
      /\ start_analysis(analysis_id, MinDescLen, resume_file_id, resume_text)
      /\ UNCHANGED api

SpecFair ==
  /\ Init
  /\ [][StartAnalysisAccepted \/ TaskStart \/ TaskResume \/ CancelAnalysis]_vars
  /\ Fairness

\* ------------------------------------------------ sessions and tokens
\* Time is counted in half seconds, so that the truncation of a datetime to
\* the whole seconds of a token's claims is visible.
NumSessions == 2
MaxAuthNow == 5

\* config.security.session_timeout (minutes in the code), in half seconds
SessionTimeout == 2

\* the exceptions of the service
TokenExpiredError == [error |-> "TokenExpiredError"]
AuthenticationError == [error |-> "AuthenticationError"]

\* int(dt.timestamp()): the datetime truncated to whole seconds
Timestamp(t) == 2 * (t \div 2)

\* SessionData(session_id=...) at time now: __post_init__ sets created_at and
\* expires_at
SessionData(session_id, now) ==
  [session_id |-> session_id, created_at |-> now, expires_at |-> now + SessionTimeout]

\* SessionData.is_expired()
is_expired(session_data, now) == now > session_data.expires_at

\* JWTTokenManager.generate_token: the token is determined by its payload; iat
\* is the truncated time of the call, which is created_at in both callers
generate_token(session_data) ==
  [session_id |-> session_data.session_id,
   created_at |-> Timestamp(session_data.created_at),
   expires_at |-> Timestamp(session_data.expires_at)]

\* JWTTokenManager.validate_token of a token this manager signed: jwt.decode
\* with verify_exp raises ExpiredSignatureError when exp <= now, and the
\* session decoded is checked with is_expired once more
validate_token(token, now) ==
  IF token.expires_at <= now THEN TokenExpiredError
  ELSE IF is_expired(token, now) THEN TokenExpiredError
  ELSE token

\* JWTTokenManager.refresh_token: decodes with verify_exp False, then sets
\* expires_at and created_at from the time of the call
refresh_token(token, now) ==
  LET session_data == [session_id |-> token.session_id,
                       created_at |-> now,
                       expires_at |-> now + SessionTimeout]
  IN  [new_token |-> generate_token(session_data), session_data |-> session_data]

Raised(x) == x \in {TokenExpiredError, AuthenticationError}

\* SessionManager.create_session(session_id): the manager after the call;
\* revoked is the history of the ids revoked and not created since
create_session(a, session_id) ==
  LET session_data == SessionData(session_id, a.now)
      token == generate_token(session_data)
  IN  [a EXCEPT !.active_sessions = Put(@, session_id, session_data),
                !.tokens = @ \cup {token},
                !.revoked = @ \ {session_id},
                !.ret = [op |-> "create_session", arg |-> session_id, val |-> token]]

\* what SessionManager.validate_session(token) returns or raises
validate_session_returns(a, token) ==
  LET session_data == validate_token(token, a.now)
  IN  IF Raised(session_data) THEN session_data
      ELSE IF token.session_id \notin DOMAIN a.active_sessions
        THEN AuthenticationError
        ELSE session_data

\* SessionManager.validate_session(token): the stored session is replaced
\* when the token's expires_at is later
validate_session(a, token) ==
  LET val == validate_session_returns(a, token)
  IN  [a EXCEPT !.active_sessions =
                   IF ~Raised(val) /\ val.expires_at > @[val.session_id].expires_at
                     THEN Put(@, val.session_id, val) ELSE @,
                !.ret = [op |-> "validate_session", arg |-> token, val |-> val]]

\* SessionManager.refresh_session(current_token)
refresh_session(a, current_token) ==
  LET r == refresh_token(current_token, a.now)
  IN  IF Raised(r)
        THEN [a EXCEPT !.ret = [op |-> "refresh_session", arg |-> current_token,
                                val |-> r]]
        ELSE [a EXCEPT !.active_sessions = Put(@, current_token.session_id, r.session_data),
                       !.tokens = @ \cup {r.new_token},
                       !.ret = [op |-> "refresh_session", arg |-> current_token,
                                val |-> r.new_token]]

\* SessionManager.revoke_session(session_id)
revoke_session(a, session_id) ==
  IF session_id \in DOMAIN a.active_sessions
    THEN [a EXCEPT !.active_sessions =
                     [id \in DOMAIN @ \ {session_id} |-> @[id]],
                   !.revoked = @ \cup {session_id},
                   !.ret = [op |-> "revoke_session", arg |-> session_id, val |-> TRUE]]
    ELSE [a EXCEPT !.ret = [op |-> "revoke_session", arg |-> session_id, val |-> FALSE]]

\* SessionManager.cleanup_expired_sessions()
cleanup_expired_sessions(a) ==
  LET expired_sessions ==
        {id \in DOMAIN a.active_sessions : is_expired(a.active_sessions[id], a.now)}
  IN  [a EXCEPT !.active_sessions =
                  [id \in DOMAIN @ \ expired_sessions |-> @[id]],
                !.ret = [op |-> "cleanup_expired_sessions", arg |-> 0,
                         val |-> Cardinality(expired_sessions)]]

\* POST /auth/refresh with an Authorization header (a token or None) and a
\* refresh_token in the body (a token or None). optional_jwt_bearer validates
\* the header's token and yields None when that fails; the endpoint maps
\* TokenExpiredError and AuthenticationError to 401 and anything else, its
\* own HTTPException(400) included, to 500.
refresh_endpoint(a, header, body) ==
  LET b == IF header = NoRecord THEN a ELSE validate_session(a, header)
      current_session == IF header = NoRecord \/ Raised(b.ret.val) THEN NoRecord ELSE b.ret.val
      c == IF current_session # NoRecord THEN create_session(b, current_session.session_id)
           ELSE IF body # NoRecord THEN refresh_session(b, body)
           ELSE b
      response ==
        IF current_session = NoRecord /\ body = NoRecord
          THEN [status |-> 500, detail |-> "Token refresh failed"]
        ELSE IF c.ret.val = TokenExpiredError
          THEN [status |-> 401, detail |-> "Token has expired and cannot be refreshed"]
        ELSE IF c.ret.val = AuthenticationError
          THEN [status |-> 401, detail |-> "Token refresh failed"]
        ELSE [status |-> 200, access_token |-> c.ret.val]
  IN  [c EXCEPT !.ret = [op |-> "refresh_endpoint", arg |-> <<header, body>>,
                         val |-> response]]

AuthUnchanged ==
  UNCHANGED <<active_jobs, job_progress, job_results, tasks, ret, clock,
              match, parser, limiter, claude, extraction, api>>

InitAuth ==
  /\ active_jobs = EmptyDict
  /\ job_progress = EmptyDict
  /\ job_results = EmptyDict
  /\ tasks = EmptyDict
  /\ ret = [op |-> "init", id |-> 0, val |-> None]
  /\ clock = 0
  /\ match = NoRecord
  /\ parser = NoRecord
  /\ limiter = NoRecord
  /\ claude = NoRecord
  /\ extraction = NoRecord
  /\ api = NoRecord
  /\ auth = [active_sessions |-> EmptyDict, tokens |-> {}, revoked |-> {}, now |-> 0,
             ret |-> [op |-> "init", arg |-> 0, val |-> NoRecord]]

CreateSession ==
  /\ \E session_id \in (1..NumSessions) : auth' = create_session(auth, session_id)
  /\ AuthUnchanged

ValidateSession ==
  /\ \E token \in auth.tokens : auth' = validate_session(auth, token)
  /\ AuthUnchanged

RefreshSession ==
  /\ \E token \in auth.tokens : auth' = refresh_session(auth, token)
  /\ AuthUnchanged

RevokeSession ==
  /\ \E session_id \in (1..NumSessions) : auth' = revoke_session(auth, session_id)
  /\ AuthUnchanged

CleanupExpiredSessions ==
  /\ auth' = cleanup_expired_sessions(auth)
  /\ AuthUnchanged

RefreshEndpoint ==
  /\ \E header \in auth.tokens \cup {NoRecord}, body \in auth.tokens \cup {NoRecord} :
       auth' = refresh_endpoint(auth, header, body)
  /\ AuthUnchanged

\* half a second passes
AuthTick ==
  /\ auth.now < MaxAuthNow
  /\ auth' = [auth EXCEPT !.now = @ + 1]
  /\ AuthUnchanged

SpecAuth ==
  /\ InitAuth
  /\ [][CreateSession \/ ValidateSession \/ RefreshSession \/ RevokeSession \/ CleanupExpiredSessions \/ RefreshEndpoint \/ AuthTick]_vars

\* ------------------------------------------------ section extraction
MaxLines == 4

\* the section names of SECTION_PATTERNS that the texts examined use
SectionNames == {"summary", "experience"}

\* _detect_section_header(line)
detect_section_header(line) ==
  IF line.kind \in SectionNames THEN line.kind ELSE None

\* sections[current_section] = '\n'.join(current_content).strip(): the lines
\* joined are stripped and non-empty, so the string is the list of the lines
SetSection(sections, current_section, current_content) ==
  [s \in DOMAIN sections \cup {current_section} |->
     IF s = current_section THEN current_content ELSE sections[s]]

\* the for loop of _extract_sections from line i on, and the saving of the
\* last section after it
RECURSIVE extract_sections_loop(_, _, _, _, _)
extract_sections_loop(lines, i, sections, current_section, current_content) ==
  IF i > Len(lines)
    THEN IF current_content # <<>>
           THEN SetSection(sections, current_section, current_content)
           ELSE sections
  ELSE IF lines[i].kind = "blank"
    THEN extract_sections_loop(lines, i + 1, sections, current_section, current_content)
  ELSE IF detect_section_header(lines[i]) # None
    THEN extract_sections_loop(
           lines, i + 1,
           IF current_content # <<>>
             THEN SetSection(sections, current_section, current_content)
             ELSE sections,
           detect_section_header(lines[i]), <<>>)
  ELSE extract_sections_loop(lines, i + 1, sections, current_section,
                             Append(current_content, lines[i].text))

\* The text given to _extract_sections, as the list of its lines after
\* strip(): a line is blank, a line that a pattern of SECTION_PATTERNS matches
\* (kind is the section's name), or any other line (kind "content"). text
\* stands for the line's characters: the i-th line has text i, so different
\* lines are different strings.
InitExtraction ==
  /\ active_jobs = EmptyDict
  /\ job_progress = EmptyDict
  /\ job_results = EmptyDict
  /\ tasks = EmptyDict
  /\ ret = [op |-> "init", id |-> 0, val |-> None]
  /\ clock = 0
  /\ match = NoRecord
  /\ parser = NoRecord
  /\ limiter = NoRecord
  /\ claude = NoRecord
  /\ auth = NoRecord
  /\ api = NoRecord
  /\ \E n \in 0..MaxLines :
       \E kinds \in [1..n -> {"blank", "content"} \cup SectionNames] :
         extraction = [lines |-> [i \in 1..n |-> [kind |-> kinds[i], text |-> i]],
                       returned |-> FALSE,
                       sections |-> EmptyDict]

\* _extract_sections(text): the loop starts at the first line with no section
\* saved, current_section 'header' and no content
ExtractSections ==
  /\ ~extraction.returned
  /\ extraction' =
       [extraction EXCEPT
          !.returned = TRUE,
          !.sections = extract_sections_loop(extraction.lines, 1, EmptyDict,
                                             "header", <<>>)]
  /\ UNCHANGED <<active_jobs, job_progress, job_results, tasks, ret, clock,
                 match, parser, limiter, claude, auth, api>>

SpecExtraction ==
  /\ InitExtraction
  /\ [][ExtractSections]_vars

\* ------------------------------------------------------------ properties
Jobs == DOMAIN active_jobs

StepStatus(j, i) == job_progress[j][i].status

\* a request that start_analysis accepts according to the claim: a description
\* of at least 50 characters and a file id or a resume text
ValidRequest(desc_len, resume_file_id, resume_text) ==
  desc_len >= 50 /\ (resume_file_id \/ resume_text # "none")

\* C1: in the state start_analysis leaves behind when it returns a job id for
\* a valid request, get_progress(id) is a snapshot with overall_progress 0,
\* status pending or processing, and seven step records, all pending.
C1_StartedJobVisible ==
  [][\A j \in JobIds, d \in DescLens, f \in BOOLEAN, t \in ResumeTexts :
       (ValidRequest(d, f, t) /\ start_analysis(j, d, f, t)) =>
         /\ ret'.val = "id" /\ ret'.id = j
         /\ get_progress(j)' # NoRecord
         /\ get_progress(j)'.overall_progress = 0
         /\ get_progress(j)'.status \in {PENDING, PROCESSING}
         /\ Len(get_progress(j)'.steps) = 7
         /\ \A i \in 1..7 : get_progress(j)'.steps[i].status = PENDING]_vars

C1_Witness ==
  \E j \in Jobs :
    /\ ret = [op |-> "start_analysis", id |-> j, val |-> "id"]
    /\ tasks[j].pc = "created"
    /\ get_progress(j).overall_progress = 0
    /\ get_progress(j).status = PENDING

\* C2: once the executor of step 1, 3, 4, 5, 6 or 7 of a job has raised, the
\* job's status is failed, get_result returns None, and every step after the
\* raising one is pending, in that state and in every later one.
C2_FatalStepFailsJob ==
  \A j \in Jobs :
    tasks[j].exc \in {1, 3, 4, 5, 6, 7} =>
      /\ active_jobs[j].status = FAILED
      /\ get_result(j) = NoRecord
      /\ \A i \in Steps : i > tasks[j].exc => StepStatus(j, i) = PENDING

C2_Witness ==
  \E j \in Jobs :
    /\ tasks[j].exc = 4
    /\ active_jobs[j].status = FAILED
    /\ StepStatus(j, 4) = FAILED
    /\ ret = [op |-> "cancel_analysis", id |-> j, val |-> "False"]

\* C3: when Company Research's call raised (its record is failed) and no other
\* step raised, the job is never failed; the record carries an error message,
\* the sentinel payload is what later steps receive, and when the run is over
\* the job is completed, steps 3 to 7 are completed and the stored result holds
\* the sentinel.  (The formula does not assume that the job was never
\* cancelled: it holds of cancelled runs too.)
C3_CompanyResearchDegrades ==
  \A j \in Jobs :
    (StepStatus(j, 2) = FAILED /\ \A i \in Steps \ {2} : StepStatus(j, i) # FAILED) =>
      /\ active_jobs[j].status # FAILED
      /\ job_progress[j][2].error_message # None
      /\ tasks[j].company_research = "Research failed"
      /\ tasks[j].pc = "done" =>
           /\ active_jobs[j].status = COMPLETED
           /\ \A i \in 3..7 : StepStatus(j, i) = COMPLETED
           /\ get_result(j) # NoRecord
           /\ get_result(j).company_research = "Research failed"

C3_Witness ==
  \E j \in Jobs :
    /\ StepStatus(j, 2) = FAILED
    /\ tasks[j].pc = "done"
    /\ active_jobs[j].status = COMPLETED
    /\ get_result(j) # NoRecord
    /\ get_result(j).company_research = "Research failed"

\* C4 as claimed: every completed job reports overall_progress 100 and has all
\* seven step records completed.
C4_CompletedMeansAllCompleted ==
  \A j \in Jobs :
    active_jobs[j].status = COMPLETED =>
      /\ get_progress(j).overall_progress = 100
      /\ \A i \in Steps : StepStatus(j, i) = COMPLETED

\* C4 as amended: in every completed job each step record other than Company
\* Research's is completed and Company Research's is completed or failed;
\* overall_progress is 100 in the first case and 85 in the second.
C4_CompletedUpToCompanyResearch ==
  \A j \in Jobs :
    active_jobs[j].status = COMPLETED =>
      /\ \A i \in Steps \ {2} : StepStatus(j, i) = COMPLETED
      /\ StepStatus(j, 2) \in {COMPLETED, FAILED}
      /\ get_progress(j).overall_progress =
           IF StepStatus(j, 2) = COMPLETED THEN 100 ELSE 85

C4_Witness ==
  \E j \in Jobs :
    /\ active_jobs[j].status = COMPLETED
    /\ StepStatus(j, 2) = FAILED
    /\ get_progress(j).overall_progress = 85

\* C5: get_result returns a result for a job id exactly when that job exists
\* and its status is completed.
C5_ResultIffCompleted ==
  \A j \in JobIds :
    get_result(j) # NoRecord <=> (j \in Jobs /\ active_jobs[j].status = COMPLETED)

C5_Witness ==
  \E j, k \in Jobs :
    /\ active_jobs[j].status = COMPLETED /\ get_result(j) # NoRecord
    /\ active_jobs[k].status = FAILED /\ get_result(k) = NoRecord

\* C6: at most one step of a job is processing, and a step that has left
\* pending has only finished steps below it: completed, or failed in the case
\* of Company Research.
C6_StepsInOrder ==
  \A j \in Jobs :
    /\ Cardinality({i \in Steps : StepStatus(j, i) = PROCESSING}) <= 1
    /\ \A i \in Steps :
         StepStatus(j, i) # PENDING =>
           \A k \in 1..(i - 1) :
             \/ StepStatus(j, k) = COMPLETED
             \/ k = 2 /\ StepStatus(j, k) = FAILED

C6_Witness ==
  \E j \in Jobs :
    /\ StepStatus(j, 5) = PROCESSING
    /\ StepStatus(j, 2) = FAILED
    /\ \A k \in {1, 3, 4} : StepStatus(j, k) = COMPLETED

\* C7 as claimed: a job whose status is cancelled keeps that status and never
\* gets a result.
C7_CancelledStaysCancelled ==
  [][\A j \in Jobs :
       active_jobs[j].status = CANCELLED =>
         /\ active_jobs'[j].status = CANCELLED
         /\ get_result(j)' = NoRecord]_vars

\* C8 as claimed: cancel_analysis returns True exactly when the job exists and
\* its status is pending or processing.
C8_CancelReturnsTrueIffRunning ==
  [][\A j \in JobIds :
       cancel_analysis(j) =>
         (ret'.val = "True" <=>
            (j \in Jobs /\ active_jobs[j].status \in {PENDING, PROCESSING}))]_vars

\* C9: a cancel_analysis that returns True sets the job's status to cancelled,
\* turns the processing step (if any) to cancelled, leaves the status of every
\* other step of the job as it was, and leaves every other job's record, step
\* records and result, and the job's own result, as they were.
C9_CancelFrame ==
  [][\A j \in JobIds :
       (cancel_analysis(j) /\ ret'.val = "True") =>
         /\ active_jobs'[j].status = CANCELLED
         /\ \A i \in Steps :
              StepStatus(j, i)' =
                IF StepStatus(j, i) = PROCESSING THEN CANCELLED
                ELSE StepStatus(j, i)
         /\ \A k \in JobIds \ {j} :
              /\ k \in Jobs <=> k \in Jobs'
              /\ k \in Jobs => /\ active_jobs'[k] = active_jobs[k]
                               /\ job_progress'[k] = job_progress[k]
         /\ job_results' = job_results]_vars

C9_Witness ==
  \E j, k \in Jobs :
    /\ j # k
    /\ ret = [op |-> "cancel_analysis", id |-> j, val |-> "True"]
    /\ active_jobs[j].status = CANCELLED
    /\ \E i \in Steps : StepStatus(j, i) = CANCELLED
    /\ active_jobs[k].status = PROCESSING

\* C10: cancel_analysis on a completed or failed job returns False and leaves
\* the job table, the step records and the result table unchanged.
C10_CancelFinishedIsNoop ==
  [][\A j \in Jobs :
       (active_jobs[j].status \in {COMPLETED, FAILED} /\ cancel_analysis(j)) =>
         /\ ret'.val = "False"
         /\ UNCHANGED <<active_jobs, job_progress, job_results>>]_vars

C10_Witness ==
  \E j, k \in Jobs :
    /\ ret = [op |-> "cancel_analysis", id |-> j, val |-> "False"]
    /\ active_jobs[j].status = COMPLETED
    /\ get_result(j) # NoRecord
    /\ active_jobs[k].status = FAILED

\* the finished jobs that a cleanup with this max_age_hours is to evict: status
\* completed, failed or cancelled, last updated before now - max_age_hours
OldFinished(max_age_hours) ==
  {j \in Jobs : /\ active_jobs[j].status \in {COMPLETED, FAILED, CANCELLED}
                /\ active_jobs[j].updated_at < clock - max_age_hours}

\* C11: a call of cleanup_old_jobs, whatever max_age_hours it is given, leaves
\* every job whose status is pending or processing in the job table and in the
\* progress table, unchanged, however long ago the job was last updated.
C11_CleanupKeepsRunningJobs ==
  [][\A m \in (0..MaxAgeHours) :
       cleanup_old_jobs(m) =>
         \A j \in Jobs :
           active_jobs[j].status \in {PENDING, PROCESSING} =>
             /\ j \in DOMAIN active_jobs'
             /\ active_jobs'[j] = active_jobs[j]
             /\ j \in DOMAIN job_progress'
             /\ job_progress'[j] = job_progress[j]]_vars

C11_Witness ==
  /\ ret.op = "cleanup_old_jobs"
  /\ \E j, k \in Jobs :
       /\ active_jobs[j].status = PROCESSING
       /\ active_jobs[j].updated_at < clock - MaxAgeHours
       /\ active_jobs[k].status = PENDING
       /\ active_jobs[k].updated_at < clock - MaxAgeHours

\* C12 as claimed: cleanup_old_jobs(max_age_hours) removes from the job table,
\* the progress table and the result table exactly the completed, failed and
\* cancelled jobs last updated before now - max_age_hours, leaves every other
\* job as it was, and returns the number of jobs it removed.
C12_CleanupRemovesOldFinished ==
  [][\A m \in (0..MaxAgeHours) :
       cleanup_old_jobs(m) =>
         /\ DOMAIN active_jobs' = DOMAIN active_jobs \ OldFinished(m)
         /\ DOMAIN job_progress' = DOMAIN job_progress \ OldFinished(m)
         /\ DOMAIN job_results' = DOMAIN job_results \ OldFinished(m)
         /\ \A j \in Jobs \ OldFinished(m) :
              /\ active_jobs'[j] = active_jobs[j]
              /\ job_progress'[j] = job_progress[j]
         /\ ret'.val = ToString(Cardinality(OldFinished(m)))]_vars

\* C13: a start_analysis call whose description has fewer than 50 characters
\* after trimming, or which carries neither a resume file id nor a resume
\* text, raises JobAnalysisError and leaves the job table, the progress table,
\* the result table and the set of scheduled tasks as they were.
C13_InvalidRequestCreatesNothing ==
  [][\A j \in JobIds, d \in DescLens, f \in BOOLEAN, t \in ResumeTexts :
       ((d < 50 \/ (~f /\ t = "none")) /\ start_analysis(j, d, f, t)) =>
         /\ ret'.val = "JobAnalysisError"
         /\ UNCHANGED <<active_jobs, job_progress, job_results, tasks>>]_vars

C13_Witness ==
  /\ ret = [op |-> "start_analysis", id |-> 0, val |-> "JobAnalysisError"]
  /\ Jobs = {}
  /\ DOMAIN tasks = {}

\* C14 as claimed: start_analysis itself rejects, creating nothing, a request
\* whose resume text is non-empty but shorter than 100 characters.
C14_ShortResumeRejected ==
  [][\A j \in JobIds, d \in DescLens, t \in ResumeTextsByLength :
       (ResumeLen(t) > 0 /\ ResumeLen(t) < 100 /\ start_analysis(j, d, FALSE, t)) =>
         /\ ret'.val = "JobAnalysisError"
         /\ UNCHANGED <<active_jobs, job_progress, job_results, tasks>>]_vars

\* C14 as amended: start_analysis has no minimum for the resume text; for a
\* description of at least 50 characters and a non-empty resume text of any
\* length, under 100 characters included, it returns the id and creates the
\* pending job, which holds the text, and its task.
C14_AnyNonEmptyResumeAccepted ==
  [][\A j \in JobIds \ Jobs, d \in DescLens, t \in ResumeTextsByLength :
       (d >= 50 /\ ResumeLen(t) > 0 /\ start_analysis(j, d, FALSE, t)) =>
         /\ ret'.val = "id" /\ ret'.id = j
         /\ j \in Jobs'
         /\ active_jobs'[j].status = PENDING
         /\ active_jobs'[j].request.resume_text = t
         /\ tasks'[j].pc = "created"]_vars

C14_Witness ==
  \E j \in Jobs :
    /\ ret = [op |-> "start_analysis", id |-> j, val |-> "id"]
    /\ active_jobs[j].request.resume_text = "short"
    /\ ResumeLen("short") < 100
    /\ active_jobs[j].status = PENDING

\* C15: a failed job reports, through get_progress, status failed, the
\* job-level error text, the failing step in status failed with its error
\* message, and no step in processing; and every step of the system leaves a
\* failed job in the table with its status, its error and all its step records
\* as they were (cleanup, the only operation that removes jobs, included).
C15_FailedIsFinal ==
  /\ [](\A j \in Jobs :
          active_jobs[j].status = FAILED =>
            /\ get_progress(j).status = FAILED
            /\ get_progress(j).error \in Steps
            /\ get_progress(j).steps[get_progress(j).error].status = FAILED
            /\ get_progress(j).steps[get_progress(j).error].error_message # None
            /\ \A i \in Steps : get_progress(j).steps[i].status # PROCESSING)
  /\ [][\A j \in Jobs :
          active_jobs[j].status = FAILED =>
            /\ j \in Jobs'
            /\ active_jobs'[j] = active_jobs[j]
            /\ job_progress'[j] = job_progress[j]
            /\ get_result(j)' = NoRecord]_vars

C15_Witness ==
  \E j, k \in Jobs :
    /\ active_jobs[j].status = FAILED
    /\ active_jobs[j].error = 3
    /\ StepStatus(j, 3) = FAILED
    /\ ret = [op |-> "cancel_analysis", id |-> j, val |-> "False"]
    /\ tasks[k].pc = "await"

\* number of step records of job j in status completed
CompletedCount(j) == Cardinality({i \in Steps : StepStatus(j, i) = COMPLETED})

\* C16 as claimed: with c step records completed, get_progress reports
\* overall_progress round(100 * c / 7): 0, 14, 29, 43, 57, 71, 86, 100.
C16_ProgressIsRounded ==
  \A j \in Jobs :
    get_progress(j).overall_progress =
      <<0, 14, 29, 43, 57, 71, 86, 100>>[CompletedCount(j) + 1]

\* C16 as amended: with c step records completed, get_progress reports
\* overall_progress 100 * c / 7 truncated to an integer: 0, 14, 28, 42, 57, 71,
\* 85, 100 for c = 0..7.
C16_ProgressIsTruncated ==
  \A j \in Jobs :
    get_progress(j).overall_progress =
      <<0, 14, 28, 42, 57, 71, 85, 100>>[CompletedCount(j) + 1]

C16_Witness ==
  \E j, k \in Jobs :
    /\ CompletedCount(j) = 2 /\ get_progress(j).overall_progress = 28
    /\ CompletedCount(k) = 6 /\ get_progress(k).overall_progress = 85

\* what the service holds about job j: its record, its step records, its
\* result and its task
JobView(j) ==
  IF j \in Jobs
    THEN <<active_jobs[j], job_progress[j], Get(job_results, j), tasks[j]>>
    ELSE <<>>

\* C17: jobs are independent: a step that changes anything of one job (a step
\* transition, a failure, a cancellation, the storing of its result) leaves
\* every other job's record, step records and result as they were.
C17_JobsIndependent ==
  [][\A j \in Jobs : \A k \in Jobs \ {j} :
       JobView(j)' # JobView(j) =>
         /\ k \in Jobs'
         /\ active_jobs'[k] = active_jobs[k]
         /\ job_progress'[k] = job_progress[k]
         /\ Get(job_results, k)' = Get(job_results, k)]_vars

C17_Witness ==
  \E j, k \in Jobs :
    /\ active_jobs[k].status = COMPLETED
    /\ get_result(k) # NoRecord
    /\ tasks[j].pc = "await"
    /\ StepStatus(j, 5) = PROCESSING
    /\ StepStatus(j, 2) = COMPLETED

\* C18 as claimed: the status of a step record changes only along
\* pending -> processing -> {completed, failed, cancelled}: from pending it can
\* go anywhere along that chain, from processing only to a terminal status,
\* and from completed, failed or cancelled nowhere.  (One uninterrupted stretch
\* of the task may take a step through several links of the chain.)
C18_StepStatusMonotone ==
  [][LET After(status) ==
           CASE status = PENDING -> AnalysisStatus
             [] status = PROCESSING -> {PROCESSING, COMPLETED, FAILED, CANCELLED}
             [] OTHER -> {status}
     IN  \A j \in Jobs : \A i \in Steps :
           j \in Jobs' => StepStatus(j, i)' \in After(StepStatus(j, i))]_vars

\* C19: for a job id that is not in the job table (never issued, or evicted),
\* get_progress returns None, get_result returns None, and cancel_analysis
\* returns False; the calls change no table and no task.
C19_UnknownIdIsAbsent ==
  /\ [](\A j \in JobIds \ Jobs :
          /\ get_progress(j) = NoRecord
          /\ get_result(j) = NoRecord
          /\ ~cancel_analysis_returns(j))
  /\ [][\A j \in JobIds \ Jobs :
          cancel_analysis(j) =>
            /\ ret'.val = "False"
            /\ UNCHANGED <<active_jobs, job_progress, job_results, tasks>>]_vars

C19_Witness ==
  \E j \in JobIds \ Jobs, k \in Jobs :
    /\ ret = [op |-> "cancel_analysis", id |-> j, val |-> "False"]
    /\ get_progress(j) = NoRecord
    /\ get_result(j) = NoRecord
    /\ get_result(k) # NoRecord

\* C20: when the call awaited by step 1, 2, 4 or 5 returns text that is not
\* JSON, the executor does not raise: it builds the fallback payload, which
\* holds the raw text, the step's record becomes completed, and the job goes on
\* with the next step.
C20_NonJsonFallsBack ==
  [][\A j \in Jobs : \A k \in {1, 2, 4, 5} :
       (/\ tasks[j].pc = "await"
        /\ tasks[j].step = k
        /\ Store(j, process_analysis_resume(JobState(j), "text"))
        /\ UNCHANGED <<ret, clock>>) =>
         /\ ~parse_response(k, "text").raises
         /\ parse_response(k, "text").kind = "fallback"
         /\ parse_response(k, "text").raw_text # None
         /\ StepStatus(j, k)' = COMPLETED
         /\ tasks'[j].exc # k
         /\ StepStatus(j, k + 1)' # PENDING
         /\ k = 2 => tasks'[j].company_research = "raw"]_vars

C20_Witness ==
  \E j \in Jobs :
    /\ tasks[j].company_research = "raw"
    /\ StepStatus(j, 2) = COMPLETED
    /\ StepStatus(j, 3) = COMPLETED
    /\ StepStatus(j, 4) = PROCESSING

\* C21: a job started with whitespace-only resume text (and no file id) fails
\* at Resume Parsing: as soon as Company Research is over, step 3 is failed
\* with an error message and the job is failed with that step's error; step 3
\* is never completed and step 4 never leaves pending.
C21_BlankResumeFailsAtParsing ==
  \A j \in Jobs :
    (~active_jobs[j].request.resume_file_id
       /\ active_jobs[j].request.resume_text = "blank") =>
      /\ StepStatus(j, 4) = PENDING
      /\ StepStatus(j, 3) \in {PENDING, FAILED}
      /\ StepStatus(j, 2) \in {COMPLETED, FAILED} =>
           /\ StepStatus(j, 3) = FAILED
           /\ job_progress[j][3].error_message # None
           /\ active_jobs[j].status = FAILED
           /\ active_jobs[j].error = 3
           /\ get_result(j) = NoRecord

C21_Witness ==
  \E j \in Jobs :
    /\ active_jobs[j].request.resume_text = "blank"
    /\ StepStatus(j, 2) = COMPLETED
    /\ StepStatus(j, 3) = FAILED
    /\ StepStatus(j, 4) = PENDING
    /\ active_jobs[j].status = FAILED

\* C22: for every keyword list, skill list, work-experience list, education
\* list and contact record, _calculate_job_match_score returns a value in
\* [0, 1]; an empty keyword list, or empty skills, work experience and
\* education, does not make the computation raise (no division by zero): only
\* a missing contact record takes the default of the except clause.
C22_MatchScoreInUnitInterval ==
  match.score # NoRecord =>
    /\ 0 <= match.score.num
    /\ match.score.num <= match.score.den
    /\ match.score.den > 0
    /\ match.in.contact_info # NoRecord => ~match.score.raised

C22_Witness ==
  /\ match.score # NoRecord
  /\ match.in.job_keywords = {}
  /\ match.in.resume_skills = {}
  /\ match.in.experience_count = 0
  /\ match.in.education_count = 0
  /\ match.in.contact_info = [email |-> FALSE, phone |-> FALSE]
  /\ match.score.num = 0

\* C23 as claimed: any two calls of parse_resume with the same text return the
\* same result, the order of the skills and of each entry's technologies
\* included.
C23_ParseResumeDeterministic ==
  \A a, b \in 1..Len(parser.calls) :
    parser.calls[a].text = parser.calls[b].text =>
      parser.calls[a].result = parser.calls[b].result

\* C24: a request to the analyze-application endpoint with a description of at
\* least 50 characters and a resume of at least 100 starts exactly one analysis
\* job through start_analysis and is answered with that job's id and its initial
\* progress, before any step of the job has run.
C24_AnalyzeApplicationStartsOneJob ==
  [][(/\ api' # api
      /\ api'.request.endpoint = "analyze_application"
      /\ api'.request.form.desc_len >= MinDescLen
      /\ api'.request.form.resume_len >= MinResumeLen)
     => \E j \in JobIds \ DOMAIN active_jobs :
          /\ DOMAIN active_jobs' = DOMAIN active_jobs \cup {j}
          /\ tasks'[j] = NewTask
          /\ api'.response.status_code = HTTP_200_OK
          /\ api'.response.body = [session_id |-> j, status |-> PROCESSING,
                                   progress |-> get_progress(j)']]_vars

\* C25: the progress, results and cancel endpoints refuse with 403 a request
\* whose user is not the user of the job's request, and the history endpoint
\* lists only the caller's own analyses.
C25_EndpointsEnforceOwnership ==
  [][api' # api =>
       /\ (/\ api'.request.endpoint \in {"get_analysis_progress",
                                         "get_analysis_results",
                                         "cancel_analysis"}
           /\ api'.request.analysis_id \in DOMAIN api.user_id
           /\ api.user_id[api'.request.analysis_id] # api'.request.session)
          => api'.response.status_code = HTTP_403_FORBIDDEN
       /\ api'.request.endpoint = "get_analysis_history"
          => \A j \in api'.response.body.analyses :
               api.user_id[j] = api'.request.session]_vars

\* the requests of an identifier admitted at a time in (t - window_seconds, t]
AdmittedInWindow(identifier, t) ==
  {k \in 1..Len(limiter.admitted[identifier]) :
     /\ limiter.admitted[identifier][k] > t - limiter.window_seconds
     /\ limiter.admitted[identifier][k] <= t}

\* C26: RateLimiter.is_allowed admits, for each identifier, at most
\* max_requests requests within any rolling window of window_seconds (a window
\* being the window_seconds up to and including an instant, as is_allowed
\* counts it); a refused request is not recorded against the identifier; and a
\* call made under one identifier changes neither the record nor the decision
\* of another: the decision depends on the identifier's own admitted requests
\* alone.
C26_RateLimiterWindow ==
  /\ [](\A identifier \in (1..NumIdentifiers), t \in 0..MaxNow :
          Cardinality(AdmittedInWindow(identifier, t)) <= limiter.max_requests)
  /\ [][limiter'.last # limiter.last =>
          LET identifier == limiter'.last.identifier
          IN  /\ limiter'.last.allowed =
                   (Cardinality(AdmittedInWindow(identifier, limiter.now))
                      < limiter.max_requests)
              /\ ~limiter'.last.allowed =>
                   /\ limiter'.admitted = limiter.admitted
                   /\ Len(limiter'.requests[identifier])
                        <= Len(requests_of(identifier))
                   /\ \A k \in 1..Len(limiter'.requests[identifier]) :
                        limiter'.requests[identifier][k] # limiter.now
                          \/ limiter.now \in Range(requests_of(identifier))
              /\ \A other \in (1..NumIdentifiers) \ {identifier} :
                   /\ limiter'.admitted[other] = limiter.admitted[other]
                   /\ other \in DOMAIN limiter.requests =>
                        limiter'.requests[other] = limiter.requests[other]
                   /\ other \notin DOMAIN limiter.requests =>
                        other \notin DOMAIN limiter'.requests]_vars

\* an identifier has been refused at an instant when the window held
\* max_requests of its requests, after another identifier was admitted at the
\* same instant
C26_Witness ==
  /\ limiter.last # NoRecord
  /\ ~limiter.last.allowed
  /\ limiter.last.current_requests = limiter.max_requests
  /\ \E other \in (1..NumIdentifiers) \ {limiter.last.identifier} :
       limiter.last.now \in Range(limiter.admitted[other])
  /\ Len(limiter.admitted[limiter.last.identifier]) > limiter.max_requests

\* the requests sent to the generative capability in (t - 60, t]
IssuedInWindow(t) ==
  {k \in 1..Len(claude.issued) :
     claude.issued[k] > t - RateWindow /\ claude.issued[k] <= t}

\* C27: whatever the interleaving of the coroutines sharing the ClaudeService,
\* no more than REQUESTS_PER_MINUTE requests are sent to the generative
\* capability within any 60 seconds.
C27_RequestBudgetKept ==
  \A k \in 1..Len(claude.issued) :
    Cardinality(IssuedInWindow(claude.issued[k])) <= REQUESTS_PER_MINUTE

\* C28: while a coroutine is waiting on the generative capability, or is paused
\* in rate-limit backoff, a progress call and a cancel call can be served.
C28_QueriesServedDuringCalls ==
  (\E p \in (1..NumCallers) : claude.frame[p].pc # "idle")
    => (ENABLED ServeProgress) /\ (ENABLED ServeCancel)

\* the calls of the generative capability made during job j's run
RECURSIVE CallsUpTo(_, _)
CallsUpTo(j, i) ==
  IF i = 0 THEN 0 ELSE tasks[j].claude_calls[i] + CallsUpTo(j, i - 1)

\* C29: the claude_api_calls value of a completed job's result equals the
\* number of calls of the generative capability made during the job's run.
C29_CallCountIsActual ==
  \A j \in DOMAIN job_results :
    job_results[j].claude_api_calls = CallsUpTo(j, TotalSteps)

\* the executor of step i of job j has run as far as its call, if it makes one
Executed(j, i) == job_progress[j][i].started_at

C31_CurrentStepIsProcessingOrNextPending ==
  \A j \in Jobs :
    LET current_step == get_progress(j).current_step
        processing == {i \in Steps : StepStatus(j, i) = PROCESSING}
        pending == {i \in Steps : StepStatus(j, i) = PENDING}
    IN  /\ processing # {} =>
             current_step \in processing /\ \A i \in processing : current_step <= i
        /\ processing = {} /\ pending # {} =>
             current_step \in pending /\ \A i \in pending : current_step <= i
        /\ processing = {} /\ pending = {} => current_step = NoStep

\* one job is processing a step beyond the first while earlier steps are done and
\* later ones are pending; another has no processing step and reports a
\* pending step beyond the first; a third case, no processing and no pending
\* step, is a completed job
C31_Witness ==
  /\ \E j \in Jobs :
       /\ get_progress(j).current_step > 1
       /\ StepStatus(j, get_progress(j).current_step) = PROCESSING
       /\ \E i \in Steps : StepStatus(j, i) = PENDING
  /\ \E j \in Jobs :
       /\ get_progress(j).current_step > 1
       /\ StepStatus(j, get_progress(j).current_step) = PENDING

\* C32: in steps 1, 2, 4 and 5, whatever text a successful call returns (valid
\* JSON that is not an object included), the step's record becomes completed
\* and neither the step nor the job fails.
C32_AnyResponseShapeCompletes ==
  [][\A j \in Jobs : \A k \in {1, 2, 4, 5} : \A out \in Outcomes(k) \ {"error"} :
       (/\ tasks[j].pc = "await"
        /\ tasks[j].step = k
        /\ Store(j, process_analysis_resume(JobState(j), out))
        /\ UNCHANGED <<ret, clock>>) =>
         /\ StepStatus(j, k)' = COMPLETED
         /\ active_jobs'[j].status # FAILED \/ active_jobs[j].status = FAILED]_vars

\* job j's run is over: its status is terminal and none of its steps is in
\* status processing
Settled(j) ==
  /\ j \in Jobs
  /\ tasks[j].pc = "done"
  /\ active_jobs[j].status \in {COMPLETED, FAILED, CANCELLED}
  /\ \A i \in Steps : StepStatus(j, i) # PROCESSING

\* C33: when the loop runs every task and every awaited call returns or raises,
\* every job accepted by start_analysis eventually has a terminal status
\* (completed, failed or cancelled), and no step of it stays in status
\* processing forever: the job's run comes to an end with a terminal status and
\* no processing step, and stays so.
C33_EveryJobTerminates ==
  /\ \A j \in JobIds : (j \in Jobs) ~> Settled(j)
  /\ [][\A j \in JobIds : Settled(j) => Settled(j)']_vars

\* a job has run to its end, whichever status it ended in, after every one of
\* its steps was started, and none of its steps is processing
C33_Witness ==
  \E j \in Jobs :
    /\ tasks[j].pc = "done"
    /\ active_jobs[j].status \in {COMPLETED, FAILED, CANCELLED}
    /\ \A i \in Steps : StepStatus(j, i) \notin {PROCESSING, PENDING}

\* C34: the overall_progress reported by get_progress for a job never decreases
\* from one state to the next, whatever step of whichever job is taken: step
\* transitions, failures of steps and jobs, cancels, clean-ups of other jobs.
C34_OverallProgressNeverDecreases ==
  [][\A j \in Jobs :
       j \in Jobs' =>
         get_progress(j)'.overall_progress >= get_progress(j).overall_progress]_vars

\* a cancelled job and a failed job, each of which had reported progress before
\* the cancel or the failure and still reports it
C34_Witness ==
  /\ \E j \in Jobs :
       /\ active_jobs[j].status = CANCELLED
       /\ get_progress(j).overall_progress >= 28
  /\ \E j \in Jobs :
       /\ active_jobs[j].status = FAILED
       /\ get_progress(j).overall_progress >= 14

\* C35: whenever the completed steps of a job are exactly steps 1..k, the
\* overall_progress that get_progress computes from the count of completed
\* steps equals the progress_percentage that STEP_CONFIG gives step k: 14, 28,
\* 42, 57, 71, 85, 100.
C35_ProgressMatchesStepConfig ==
  \A j \in Jobs : \A k \in Steps :
    {i \in Steps : StepStatus(j, i) = COMPLETED} = 1..k =>
      get_progress(j).overall_progress = STEP_CONFIG[k]

\* one job with steps 1..3 completed reporting 42, another with steps 1..6
\* completed reporting 85
C35_Witness ==
  \E j, k \in Jobs :
    /\ {i \in Steps : StepStatus(j, i) = COMPLETED} = 1..3
    /\ get_progress(j).overall_progress = 42
    /\ {i \in Steps : StepStatus(k, i) = COMPLETED} = 1..6
    /\ get_progress(k).overall_progress = 85

\* C36: for a keyword set K, a skill set S, work-experience and education
\* lists and a contact record, the job-match score equals
\* min(1, 0.4 * |S \cap K| / |K| + E + D + 0.1 * c / 2), where the first term is
\* 0 for empty K, E is 0.3 for three or more work-experience entries, 0.2 for
\* one or two and 0 for none, D is 0.2 with an education entry and 0 without,
\* and c counts which of email and phone are present. Stated in units of
\* 1 / (20 * n), n = |K| or 1 for empty K, and cross-multiplied with the
\* fraction returned.
C36_ScoreIsWeightedSum ==
  (match.score # NoRecord /\ match.in.contact_info # NoRecord) =>
    LET in == match.in
        K == Cardinality(in.job_keywords)
        n == IF K = 0 THEN 1 ELSE K
        overlap == Cardinality(in.resume_skills \cap in.job_keywords)
        E == IF in.experience_count >= 3 THEN 3
             ELSE IF in.experience_count \in {1, 2} THEN 2 ELSE 0
        D == IF in.education_count >= 1 THEN 2 ELSE 0
        c == (IF in.contact_info.email THEN 1 ELSE 0)
               + (IF in.contact_info.phone THEN 1 ELSE 0)
        sum == (IF K = 0 THEN 0 ELSE 8 * overlap) + 2 * n * (E + D) + n * c
        capped == IF sum > 20 * n THEN 20 * n ELSE sum
    IN  /\ ~match.score.raised
        /\ match.score.num * 20 * n = capped * match.score.den

\* one of two keywords matched, two work-experience entries, an education
\* entry, an email and no phone: 0.2 + 0.2 + 0.2 + 0.05 = 13/20
C36_Witness ==
  /\ match.score # NoRecord
  /\ match.in.job_keywords = {1, 2}
  /\ match.in.resume_skills = {1, 3}
  /\ match.in.experience_count = 2
  /\ match.in.education_count = 1
  /\ match.in.contact_info = [email |-> TRUE, phone |-> FALSE]
  /\ match.score.num * 20 = 13 * match.score.den

\* C37: a revoked session stays revoked. For every session id that
\* revoke_session has revoked (it returned True) and create_session has not
\* created again, the id is absent from active_sessions and validate_session
\* fails for every token issued for it, whatever calls of validate_session,
\* refresh_session, cleanup_expired_sessions or the refresh endpoint happened
\* in between.
C37_RevokedStaysRevoked ==
  auth # NoRecord =>
    \A id \in auth.revoked :
      /\ id \notin DOMAIN auth.active_sessions
      /\ \A token \in auth.tokens :
           token.session_id = id => Raised(validate_session_returns(auth, token))

\* C38: refresh_session refuses an expired token, and the refresh endpoint
\* given it in the request body answers 401 "Token has expired and cannot be
\* refreshed"; neither issues a new token for it.
C38_ExpiredTokenNotRefreshed ==
  [][\A token \in auth.tokens :
       validate_token(token, auth.now) = TokenExpiredError =>
         /\ auth' = refresh_session(auth, token) =>
              /\ auth'.ret.val = TokenExpiredError
              /\ auth'.tokens = auth.tokens
         /\ auth' = refresh_endpoint(auth, NoRecord, token) =>
              /\ auth'.ret.val =
                   [status |-> 401,
                    detail |-> "Token has expired and cannot be refreshed"]
              /\ auth'.tokens = auth.tokens]_vars

\* the section that governs line i: that of the nearest header line before it,
\* or the implicit "header" section when no header line precedes it
RECURSIVE GoverningSection(_, _)
GoverningSection(lines, i) ==
  IF i = 0 THEN "header"
  ELSE IF lines[i].kind \in SectionNames THEN lines[i].kind
  ELSE GoverningSection(lines, i - 1)

\* C39: section extraction loses no content. In the sections returned for any
\* sequence of blank, header and content lines, every content line is in
\* exactly one section, the one of the nearest header line before it, or
\* "header" when there is none.
C39_NoContentLost ==
  (extraction # NoRecord /\ extraction.returned) =>
    \A i \in 1..Len(extraction.lines) :
      extraction.lines[i].kind = "content" =>
        {s \in DOMAIN extraction.sections :
           extraction.lines[i].text \in Range(extraction.sections[s])}
          = {GoverningSection(extraction.lines, i)}

====
